---- MODULE Spec2Model ----
(***************************************************************************)
(* A model of the recipe execution engine of astrodata/RecipeManager.py:   *)
(* the ContextObject (status machine, control signal, inputs / outputs,    *)
(* step history), the recipe compiler (composeRecipe) with the generator   *)
(* protocol of a compiled recipe, the reduction-object resolver            *)
(* (retrieveReductionObject), the registry the import of the module builds *)
(* from the configuration space, and the lookup and binding of recipes     *)
(* (retrieveRecipe, loadAndBindRecipe, bindRecipe, checkAndBind).          *)
(*                                                                         *)
(* Python values are modelled as follows.  None is the empty sequence and  *)
(* a present optional value v is <<v>>.  A list is a sequence.  A dict is  *)
(* a function whose DOMAIN is its key set.  A str that the code indexes    *)
(* (a recipe line) is a sequence of one-character strings; a str the code  *)
(* only compares or stores (a file name, a type name) is a string.         *)
(* A call that raises leaves the state as it was when the exception left   *)
(* the callee and records the exception's class in lastOp.exc.             *)
(***************************************************************************)
EXTENDS Integers, Sequences, FiniteSets, TLC

\* ------------------------------------------------------------------ bounds
\* longest inputs / outputs list explored
MaxLen == 2
\* number of times datetime.now() returns the value it returned before
MaxSame == 1
\* largest |indent| explored
MaxIndent == 2
\* number of calls made on one context
MaxCalls == 4
\* number of lines of a recipe text
MaxLines == 3
\* number of lines of a recipe text in the runs checked for termination
MaxFairLines == 2

\* ------------------------------------------------------------- value sets
Files == {"a.fits", "b.fits"}
StepNames == {<<"p">>, <<"q">>}
Categories == {"standard", "nonstandard"}
Cmds == {"NONE", "pause"}
CalTypes == {"bias", "flat"}
CalNames == {"bias_1.fits", "bias_2.fits"}
CalRqs == {"rq_bias"}

None == <<>>
Some(v) == <<v>>

\* the lists of at most n files
FileLists(n) == UNION {[1..k -> Files] : k \in 0..n}

VARIABLES
    ctx,        \* the ContextObject
    clock,      \* the last value datetime.now() returned
    nSame,      \* the number of reads of the clock that returned the same
                \* value as the read before
    lastOp,     \* the last call made on ctx, the exception it raised ("" if
                \* none), whether the call before it was the same method and
                \* what cmdRequest was when it was made
    nCalls,     \* the number of calls made on ctx, or on the library
    firstPush,  \* the inputs as they stood before the first finalizeOutputs()
                \* that found standard outputs (None before it)
    ro,         \* the ReductionObject: its primitives and bound recipes
    rtext,      \* the recipe texts to load: recipe name -> text
    stack,      \* the running generators: one frame per recipe being run
    pc,         \* where the driver of the recipe is
    log,        \* the substeps() calls made, in order
    reqInStep,  \* whether the pause request now pending was made while a
                \* step was between its begin and its end
    reqIndent,  \* the indent at which the pause request now pending was
                \* made (-1 when none is pending)
    centralPrimitivesIndex,   \* type -> <<module file, class name>>
    centralReductionMap,      \* module file -> path
    centralRecipeIndex,       \* recipe key (name or name.type) -> path
    centralAstroTypeRecipeIndex,  \* type -> list of recipe names
    pending,    \* the files of the configuration space the import of the
                \* module has yet to walk: one set per directory, in the
                \* order of the walk
    walked,     \* the files it has walked
    loadExc,    \* the exception that ended the import ("" if none)
    ros,        \* the reduction objects recipes are bound on
    req,        \* the last call made on the RecipeLibrary with its arguments
    res,        \* its outcome
    am,         \* the GIApertureModel: aperture_id and spare_ids
    aviews,     \* its listeners, the GIApertureViews: the aps of each
    live,       \* the ids add_aperture returned for apertures that were
                \* not deleted since, in the order they were added
    dmod,       \* the GIDifferencingModel: the coordinates it holds and
                \* the parameter of the model its fn computes with
    heard,      \* what each listener of the GIDifferencingModel was
                \* notified with, in order
    giOp        \* the last call made on these objects and its outcome

ctxVars == <<ctx, clock, nSame>>
apiVars == <<lastOp, nCalls, firstPush>>
runVars == <<ro, rtext, stack, pc, log, reqInStep, reqIndent>>
regVars == <<centralPrimitivesIndex, centralReductionMap,
            centralRecipeIndex, centralAstroTypeRecipeIndex>>
loadVars == <<pending, walked, loadExc>>
resVars == <<req, res>>
giVars == <<am, aviews, live, dmod, heard, giOp>>
vars == <<ctx, clock, nSame, lastOp, nCalls, firstPush, ro, rtext, stack, pc, log,
          reqInStep, reqIndent, centralPrimitivesIndex, centralReductionMap,
          centralRecipeIndex, centralAstroTypeRecipeIndex, pending, walked,
          loadExc, ros, req, res, am, aviews, live, dmod, heard, giOp>>

\* ------------------------------------------------------- ContextObject
\* the result of a call: the context after it and the exception raised
Ret(c, exc) == [c |-> c, exc |-> exc]

\* ContextObject.__init__ (status, cmdRequest and originalInputs keep
\* their class-level values)
NewContext ==
    [ inputs         |-> <<>>,
      originalInputs |-> None,
      outputs        |-> [cat \in {"standard"} |-> <<>>],
      calibrations   |-> [k \in {} |-> ""],
      calrqs         |-> <<>>,
      status         |-> "EXTANT",
      cmdRequest     |-> "NONE",
      stephistory    |-> [t \in {} |-> 0],
      indent         |-> 0 ]

\* isFinished(arg): arg is "None", "True" or "False"
isFinished(c, arg) ==
    IF arg = "None" THEN Ret(c, "")
    ELSE IF arg = "True" THEN Ret([c EXCEPT !.status = "FINISHED"], "")
    ELSE IF c.status # "FINISHED" THEN Ret(c, "RecipeExcept")
    ELSE Ret(c, "")

finish(c) == isFinished(c, "True")

\* isPaused(bpaused): bpaused is "None", "True" or "False"
isPaused(c, bpaused) ==
    IF bpaused = "None" THEN c
    ELSE IF bpaused = "True" THEN [c EXCEPT !.status = "PAUSED"]
    ELSE [c EXCEPT !.status = "RUNNING"]

pause(c) == isPaused(c, "True")

\* unpause that leaves the context paused (used to test the claims)
unpause_ignored(c) == c

unpause(c) == isPaused(c, "False")

\* processCmdReq that leaves the request pending
processCmdReq_keepRequest(c) ==
    IF c.cmdRequest = "pause" THEN pause(c) ELSE c

\* processCmdReq that resumes a paused context when no request is pending
processCmdReq_resuming(c) ==
    IF c.cmdRequest = "pause"
    THEN pause([c EXCEPT !.cmdRequest = "NONE"])
    ELSE IF c.status = "PAUSED" THEN unpause(c) ELSE c

processCmdReq(c) ==
    IF c.cmdRequest = "pause"
    THEN pause([c EXCEPT !.cmdRequest = "NONE"])
    ELSE c

control(c, cmd) == [c EXCEPT !.cmdRequest = cmd]

requestPause(c) == control(c, "pause")

pauseRequested(c) == c.cmdRequest = "pause"

addInput(c, filename) == [c EXCEPT !.inputs = Append(@, filename)]

\* reportOutput accepting every category into the standard list
reportOutput_anyCategory(c, arg, category) ==
    IF arg.kind = "str"
    THEN Ret([c EXCEPT !.outputs["standard"] = Append(@, arg.val[1])], "")
    ELSE IF arg.kind = "list"
    THEN Ret([c EXCEPT !.outputs["standard"] = @ \o arg.val], "")
    ELSE Ret(c, "")

\* reportOutput(filename, category): arg.kind is the Python type of
\* filename ("str", "list" or anything else), arg.val its content as a list
reportOutput(c, arg, category) ==
    IF category # "standard" THEN Ret(c, "RecipeExcept")
    ELSE IF arg.kind = "str"
    THEN Ret([c EXCEPT !.outputs["standard"] = Append(@, arg.val[1])], "")
    ELSE IF arg.kind = "list"
    THEN Ret([c EXCEPT !.outputs["standard"] = @ \o arg.val], "")
    ELSE Ret(c, "")

\* finalizeOutputs appending the outputs to the inputs
finalizeOutputs_extend(c) ==
    IF Len(c.outputs["standard"]) # 0
    THEN [c EXCEPT
            !.originalInputs = IF @ = None THEN Some(c.inputs) ELSE @,
            !.inputs = @ \o c.outputs["standard"],
            !.outputs["standard"] = <<>>]
    ELSE c

\* finalizeOutputs without the test for an empty standard list
finalizeOutputs_unguarded(c) ==
    [c EXCEPT
        !.originalInputs = IF @ = None THEN Some(c.inputs) ELSE @,
        !.inputs = c.outputs["standard"],
        !.outputs["standard"] = <<>>]

finalizeOutputs(c) ==
    IF Len(c.outputs["standard"]) # 0
    THEN [c EXCEPT
            !.originalInputs = IF @ = None THEN Some(c.inputs) ELSE @,
            !.inputs = c.outputs["standard"],
            !.outputs["standard"] = <<>>]
    ELSE c

stepMoment(c, stepname, mark) ==
    [ stepname  |-> stepname,
      indent    |-> c.indent,
      mark      |-> mark,
      inputs    |-> c.inputs,
      outputs   |-> c.outputs,
      processed |-> FALSE ]

\* dict.update({key: val})
DictUpdate(d, key, val) ==
    [k \in DOMAIN d \cup {key} |-> IF k = key THEN val ELSE d[k]]

\* begin(stepname), key being the value datetime.now() returned
begin_unrecorded(c, stepname, key) ==
    [c EXCEPT !.indent = @ + 1]

begin(c, stepname, key) ==
    LET val == stepMoment(c, stepname, "begin") IN
    [c EXCEPT !.indent = @ + 1,
              !.stephistory = DictUpdate(@, key, val)]

\* end without the call of finalizeOutputs
end_keepOutputs(c, stepname, key) ==
    LET c1  == [c EXCEPT !.indent = @ - 1]
        val == stepMoment(c1, stepname, "end")
    IN [c1 EXCEPT !.stephistory = DictUpdate(@, key, val)]

\* end(stepname), key being the value datetime.now() returned
end(c, stepname, key) ==
    LET c1  == [c EXCEPT !.indent = @ - 1]
        val == stepMoment(c1, stepname, "end")
        c2  == [c1 EXCEPT !.stephistory = DictUpdate(@, key, val)]
    IN finalizeOutputs(c2)

\* addCal(fname, caltyp, calname): the timestamp it reads is not stored
addCal(c, fname, caltyp, calname) ==
    [c EXCEPT !.calibrations = DictUpdate(@, <<fname, caltyp>>, calname)]

\* getCal ignoring the calibration type (used to test the claims)
getCal_anyType(c, filename, caltype) ==
    LET keys == {k \in DOMAIN c.calibrations : k[1] = filename}
    IN IF keys # {} THEN Some(c.calibrations[CHOOSE k \in keys : TRUE]) ELSE None

\* getCal: the calibration recorded under (filename, caltype), or None
getCal(c, filename, caltype) ==
    IF <<filename, caltype>> \in DOMAIN c.calibrations
    THEN Some(c.calibrations[<<filename, caltype>>])
    ELSE None

addCalRq(c, calrq) == [c EXCEPT !.calrqs = Append(@, calrq)]

\* calFilename: originalInputs is set from inputs when it is None; then
\* None for no original input, the calibration of the only one, and for
\* several a lookup of each (the list built is not returned); a lookup of
\* a key that is not recorded raises KeyError
calFilename(c, caltype) ==
    LET c1 == IF c.originalInputs = None
              THEN [c EXCEPT !.originalInputs = Some(c.inputs)] ELSE c
        oi == c1.originalInputs[1]
        missing == {i \in 1..Len(oi) : <<oi[i], caltype>> \notin DOMAIN c1.calibrations}
    IN IF Len(oi) = 0 THEN [c |-> c1, exc |-> "", ret |-> None]
       ELSE IF missing # {} THEN [c |-> c1, exc |-> "KeyError", ret |-> None]
       ELSE IF Len(oi) = 1
            THEN [c |-> c1, exc |-> "", ret |-> Some(c1.calibrations[<<oi[1], caltype>>])]
       ELSE [c |-> c1, exc |-> "", ret |-> None]

\* datetime.now(): the clock never runs backwards, and two reads may
\* return the same value
Now == {clock + 1} \cup (IF nSame < MaxSame THEN {clock} ELSE {})

\* one read of the clock that returned key, and no read
Tick(key) ==
    /\ clock' = key
    /\ nSame' = IF key = clock THEN nSame + 1 ELSE nSame
NoTick == UNCHANGED <<clock, nSame>>

\* ------------------------------------------------ idle values
\* what the variables a specification does not use hold throughout
NoReductionObject == [prims |-> {}, bound |-> [n \in {} |-> 0]]
IdleRun ==
    /\ ro = NoReductionObject
    /\ rtext = [n \in {} |-> <<>>]
    /\ stack = <<>>
    /\ pc = "idle"
    /\ log = <<>>
    /\ reqInStep = FALSE
    /\ reqIndent = -1
IdleRecipes ==
    /\ centralRecipeIndex = [k \in {} |-> ""]
    /\ centralAstroTypeRecipeIndex = [t \in {} |-> <<>>]
IdleLoad ==
    /\ pending = <<>>
    /\ walked = {}
    /\ loadExc = ""
IdleBind == ros = <<>>
IdleRegistry ==
    /\ centralPrimitivesIndex = [t \in {} |-> <<>>]
    /\ centralReductionMap = [f \in {} |-> ""]
    /\ IdleRecipes
    /\ IdleLoad
    /\ IdleBind
IdleResolve ==
    /\ req = [dataset |-> None, astrotype |-> None]
    /\ res = [exc |-> "", msg |-> "", rotype |-> None]
IdleInteractive ==
    /\ am = [aperture_id |-> 1, spare_ids |-> <<>>]
    /\ aviews = <<>>
    /\ live = <<>>
    /\ dmod = [data_x_coords |-> None, data_y_coords |-> None, k |-> 0]
    /\ heard = <<>>
    /\ giOp = [op |-> "__init__", exc |-> ""]
IdleApi ==
    /\ lastOp = [op |-> "__init__", exc |-> "", rep |-> FALSE, sig |-> "NONE"]
    /\ nCalls = 0
    /\ firstPush = None

\* ------------------------------------------------ the ContextObject API
\* what reportOutput is called with
OutputArgs ==
    {[kind |-> "str", val |-> <<f>>] : f \in Files}
    \cup {[kind |-> "list", val |-> l] : l \in FileLists(MaxLen)}
    \cup {[kind |-> "other", val |-> <<>>]}

\* one call on ctx, r being what the method returns
Made(op, r, last) ==
    /\ nCalls < MaxCalls
    /\ nCalls' = nCalls + 1
    /\ ctx' = r.c
    /\ lastOp' = last
    /\ firstPush' = IF /\ firstPush = None
                       /\ op \in {"finalizeOutputs", "end"}
                       /\ ctx.outputs["standard"] # <<>>
                    THEN Some(ctx.inputs) ELSE firstPush
    /\ UNCHANGED <<runVars, giVars, regVars, loadVars, ros, resVars>>

Done(op, r) ==
    Made(op, r, [op |-> op, exc |-> r.exc, rep |-> (lastOp.op = op),
                 sig |-> ctx.cmdRequest])

\* the same, the arguments and the value returned being kept as well
DoneWith(op, r, args, ret) ==
    Made(op, r, [op |-> op, exc |-> r.exc, rep |-> (lastOp.op = op),
                 sig |-> ctx.cmdRequest, args |-> args, ret |-> ret])

Call_isFinished ==
    /\ \E arg \in {"None", "True", "False"} :
          Done("isFinished", isFinished(ctx, arg))
    /\ NoTick

Call_finish ==
    /\ Done("finish", finish(ctx))
    /\ NoTick

Call_isPaused ==
    /\ \E b \in {"None", "True", "False"} :
          Done("isPaused", Ret(isPaused(ctx, b), ""))
    /\ NoTick

Call_pause ==
    /\ Done("pause", Ret(pause(ctx), ""))
    /\ NoTick

Call_unpause ==
    /\ Done("unpause", Ret(unpause(ctx), ""))
    /\ NoTick

Call_processCmdReq ==
    /\ Done("processCmdReq", Ret(processCmdReq(ctx), ""))
    /\ NoTick

Call_control ==
    /\ \E cmd \in Cmds : Done("control", Ret(control(ctx, cmd), ""))
    /\ NoTick

Call_requestPause ==
    /\ Done("requestPause", Ret(requestPause(ctx), ""))
    /\ NoTick

Call_addInput ==
    /\ Len(ctx.inputs) < MaxLen
    /\ \E f \in Files : Done("addInput", Ret(addInput(ctx, f), ""))
    /\ NoTick

Call_reportOutput ==
    /\ \E arg \in OutputArgs, cat \in Categories :
          /\ Len(ctx.outputs["standard"]) + Len(arg.val) <= MaxLen
          /\ Done("reportOutput", reportOutput(ctx, arg, cat))
    /\ NoTick

Call_finalizeOutputs ==
    /\ Done("finalizeOutputs", Ret(finalizeOutputs(ctx), ""))
    /\ NoTick

Call_addCal ==
    /\ \E f \in Files, t \in CalTypes, n \in CalNames, key \in Now :
          /\ DoneWith("addCal", Ret(addCal(ctx, f, t, n), ""),
                      [fname |-> f, caltyp |-> t, calname |-> n], None)
          /\ Tick(key)

Call_getCal ==
    /\ \E f \in Files, t \in CalTypes :
          DoneWith("getCal", Ret(ctx, ""), [filename |-> f, caltype |-> t],
                   getCal(ctx, f, t))
    /\ NoTick

Call_calFilename ==
    /\ \E t \in CalTypes :
          LET r == calFilename(ctx, t)
          IN DoneWith("calFilename", r, [caltype |-> t], r.ret)
    /\ NoTick

Call_addCalRq ==
    /\ Len(ctx.calrqs) < MaxLen
    /\ \E rq \in CalRqs : Done("addCalRq", Ret(addCalRq(ctx, rq), ""))
    /\ NoTick

Call_begin ==
    /\ ctx.indent < MaxIndent
    /\ \E s \in StepNames, key \in Now :
          /\ Done("begin", Ret(begin(ctx, s, key), ""))
          /\ Tick(key)

Call_end ==
    /\ ctx.indent > -MaxIndent
    /\ \E s \in StepNames, key \in Now :
          /\ Done("end", Ret(end(ctx, s, key), ""))
          /\ Tick(key)

Init ==
    /\ ctx = NewContext
    /\ clock = 0
    /\ nSame = 0
    /\ IdleApi
    /\ IdleInteractive
    /\ IdleRun
    /\ IdleRegistry
    /\ IdleResolve

Next ==
    \/ Call_isFinished
    \/ Call_finish
    \/ Call_isPaused
    \/ Call_pause
    \/ Call_unpause
    \/ Call_processCmdReq
    \/ Call_control
    \/ Call_requestPause
    \/ Call_addInput
    \/ Call_reportOutput
    \/ Call_finalizeOutputs
    \/ Call_addCal
    \/ Call_getCal
    \/ Call_calFilename
    \/ Call_addCalRq
    \/ Call_begin
    \/ Call_end

Spec == Init /\ [][Next]_vars

\* ------------------------------------------------ recipe text
\* str.strip() removes these from both ends of a line
Whitespace == {" ", "\t", "\n"}

\* str.splitlines(): the pieces between line breaks, the last one dropped
\* when it is empty
RECURSIVE splitlines(_)
splitlines(s) ==
    IF s = <<>> THEN <<>>
    ELSE LET brk == {i \in 1..Len(s) : s[i] = "\n"} IN
         IF brk = {} THEN <<s>>
         ELSE LET i == CHOOSE j \in brk : \A k \in brk : j <= k IN
              <<SubSeq(s, 1, i - 1)>> \o splitlines(SubSeq(s, i + 1, Len(s)))

\* str.strip()
RECURSIVE strip(_)
strip(s) ==
    IF s = <<>> THEN s
    ELSE IF s[1] \in Whitespace THEN strip(Tail(s))
    ELSE IF s[Len(s)] \in Whitespace THEN strip(SubSeq(s, 1, Len(s) - 1))
    ELSE s

\* the loop of composeRecipe testing the line as read, not as stripped
RECURSIVE composeLines_unstripped(_)
composeLines_unstripped(recipelines) ==
    IF recipelines = <<>> THEN <<>>
    ELSE LET line == Head(recipelines) IN
         IF line = <<>> \/ line[1] = "#"
         THEN composeLines_unstripped(Tail(recipelines))
         ELSE <<strip(line)>> \o composeLines_unstripped(Tail(recipelines))

\* the loop of composeRecipe over recipelines: one substeps() call per
\* line that is neither blank nor a comment
RECURSIVE composeLines(_)
composeLines(recipelines) ==
    IF recipelines = <<>> THEN <<>>
    ELSE LET line == strip(Head(recipelines)) IN
         IF line = <<>> \/ line[1] = "#"
         THEN composeLines(Tail(recipelines))
         ELSE <<line>> \o composeLines(Tail(recipelines))

\* composeRecipe(name, recipebuffer): the source of a generator function
\* called name, whose body is the substeps() loops, in order, followed by
\* a last yield
composeRecipe(name, recipebuffer) ==
    [name |-> name, substeps |-> composeLines(splitlines(recipebuffer))]

\* compileRecipe(name, recipeinpython): exec the source, then eval(name):
\* the function the source defines
compileRecipe(name, recipeinpython) ==
    [kind |-> "generatorfunction", substeps |-> recipeinpython.substeps]

\* bindRecipe(redobj, name, recipefunc): sets the instance attribute name
bindRecipe(redobj, name, recipefunc) ==
    [redobj EXCEPT !.bound = DictUpdate(@, name, recipefunc)]

\* checkMethod(redobj, primitivename): whether redobj.<primitivename>
\* evaluates, as an instance attribute or as a method of the class
checkMethod(redobj, primitivename) ==
    primitivename \in DOMAIN redobj.bound \cup redobj.prims

\* whether Python takes rec, a str or None, as true
Truthy(rec) == rec # None /\ rec[1] # <<>>

\* the three steps loadAndBindRecipe takes under "if rec:"
BindIfFound(redobj, name, rec) ==
    IF Truthy(rec)
    THEN bindRecipe(redobj, name,
                    compileRecipe(name, composeRecipe(name, rec[1])))
    ELSE redobj

\* ------------------------------------------------ running a recipe
\* the lines recipe texts are made of
LineChoices ==
    { <<>>,
      <<" ", "#", "p">>,
      <<"p">>,
      <<" ", "q", " ">>,
      <<"s">> }

\* the text made of these lines, a line break between two lines
RECURSIVE JoinLines(_)
JoinLines(ls) ==
    IF ls = <<>> THEN <<>>
    ELSE IF Len(ls) = 1 THEN ls[1]
    ELSE ls[1] \o <<"\n">> \o JoinLines(Tail(ls))

RecipeTexts ==
    {JoinLines(ls) : ls \in UNION {[1..k -> LineChoices] : k \in 0..MaxLines}}

\* the recipe that is run, and the recipe some of its lines name
MainRecipe == <<"r">>
SubRecipe == <<"s">>
SubRecipeText == JoinLines(<<<<"p">>, <<"#", "c">>, <<" ", "q">>>>)

\* the primitives of the reduction object's class
Primitives == {<<"p">>, <<"q">>}

\* what a primitive reports as its output
OutChoices == {<<>>, <<"b.fits">>}

\* a frame of the generator stack: the recipe, its substeps() calls, the
\* one it is at and how far that one is; curIn, nested and prev record,
\* for the step it is at, the inputs when it began and whether a step ran
\* inside it, and the same for the step before with what it had reported
\* when it ended
Frame(name, func) ==
    [ name |-> name, substeps |-> func.substeps, ip |-> 1, ph |-> "next",
      curIn |-> <<>>, nested |-> FALSE, prev |-> None ]

Top == stack[Len(stack)]
SetTop(f) == [stack EXCEPT ![Len(stack)] = f]

\* loadAndBindRecipe for every recipe text, then the call of the main
\* recipe, which makes the generator the driver pulls; the call raises
\* AttributeError when the main recipe was not bound
StartRun ==
    /\ pc = "idle"
    /\ rtext # <<>>
    /\ LET bindAll[names \in SUBSET DOMAIN rtext] ==
               IF names = {} THEN ro
               ELSE LET n == CHOOSE x \in names : TRUE
                    IN BindIfFound(bindAll[names \ {n}], n, Some(rtext[n]))
           ro1 == bindAll[DOMAIN rtext]
       IN /\ ro' = ro1
          /\ IF checkMethod(ro1, MainRecipe)
             THEN /\ stack' = <<Frame(MainRecipe, ro1.bound[MainRecipe])>>
                  /\ pc' = "pull"
             ELSE /\ stack' = <<>>
                  /\ pc' = "failed"
    /\ UNCHANGED <<ctxVars, apiVars, rtext, giVars, log, reqInStep, reqIndent, regVars, loadVars, ros, resVars>>

\* the driver takes the next checkpoint from the generator, unless the
\* context is paused
DriverPull ==
    /\ pc = "pull"
    /\ ctx.status # "PAUSED"
    /\ pc' = "running"
    /\ UNCHANGED <<ctxVars, apiVars, ro, rtext, giVars, stack, log, reqInStep, reqIndent, regVars, loadVars, ros, resVars>>

\* the driver at a checkpoint
DriverCheckpoint ==
    /\ pc = "checkpoint"
    /\ ctx' = processCmdReq(ctx)
    /\ reqInStep' = (reqInStep /\ ~pauseRequested(ctx))
    /\ reqIndent' = IF pauseRequested(ctx) THEN -1 ELSE reqIndent
    /\ pc' = "pull"
    /\ UNCHANGED <<clock, nSame, apiVars, ro, rtext, giVars, stack, log, regVars, loadVars, ros, resVars>>

\* substeps(primname, context) up to the call of the primitive: the name
\* is looked up on the reduction object, the step begins, and the
\* primitive is called (a recipe's generator is a new frame)
SubstepsBegin ==
    /\ pc = "running"
    /\ Top.ph = "next"
    /\ Top.ip <= Len(Top.substeps)
    /\ LET primname == Top.substeps[Top.ip] IN
       /\ log' = Append(log, [name |-> primname, depth |-> Len(stack)])
       /\ IF ~checkMethod(ro, primname)
          THEN /\ pc' = "failed"
               /\ UNCHANGED <<ctxVars, stack>>
          ELSE /\ \E key \in Now :
                    /\ ctx' = begin(ctx, primname, key)
                    /\ Tick(key)
               /\ pc' = pc
               /\ LET f == [Top EXCEPT !.ph = "called", !.curIn = ctx.inputs,
                                       !.nested = FALSE]
                  IN IF primname \in DOMAIN ro.bound
                     THEN stack' = Append(SetTop(f),
                                          Frame(primname, ro.bound[primname]))
                     ELSE stack' = SetTop(f)
    /\ UNCHANGED <<apiVars, ro, rtext, giVars, reqInStep, reqIndent, regVars, loadVars, ros, resVars>>

\* a primitive that goes on without yielding (used to test the claims)
PrimitiveBody_unyielding ==
    /\ pc = "running"
    /\ Top.ph = "called"
    /\ \E out \in OutChoices :
          ctx' = reportOutput(ctx, [kind |-> "list", val |-> out], "standard").c
    /\ stack' = SetTop([Top EXCEPT !.ph = "yielded"])
    /\ pc' = pc
    /\ UNCHANGED <<clock, nSame, apiVars, ro, rtext, giVars, log, reqInStep, reqIndent, regVars, loadVars, ros, resVars>>

\* a primitive of the class: it reports its outputs and yields the context
PrimitiveBody ==
    /\ pc = "running"
    /\ Top.ph = "called"
    /\ \E out \in OutChoices :
          ctx' = reportOutput(ctx, [kind |-> "list", val |-> out], "standard").c
    /\ stack' = SetTop([Top EXCEPT !.ph = "yielded"])
    /\ pc' = "checkpoint"
    /\ UNCHANGED <<clock, nSame, apiVars, ro, rtext, giVars, log, reqInStep, reqIndent, regVars, loadVars, ros, resVars>>

\* a primitive of the class raises: nothing catches the exception in
\* substeps(), in the compiled recipes or in the driver, so the run is over
PrimitiveRaises ==
    /\ pc = "running"
    /\ Top.ph = "called"
    /\ pc' = "failed"
    /\ UNCHANGED <<ctxVars, apiVars, ro, rtext, giVars, stack, log, reqInStep, reqIndent, regVars, loadVars, ros, resVars>>

\* substeps() after the primitive's generator is exhausted: the step ends
\* and the context is yielded
SubstepsEnd ==
    /\ pc = "running"
    /\ Top.ph \in {"yielded", "returned"}
    /\ \E key \in Now :
          /\ ctx' = end(ctx, Top.substeps[Top.ip], key)
          /\ Tick(key)
    /\ stack' = SetTop([Top EXCEPT
                          !.ph = "next",
                          !.ip = @ + 1,
                          !.prev = Some([in |-> Top.curIn,
                                         out |-> ctx.outputs["standard"],
                                         nested |-> Top.nested])])
    /\ pc' = "checkpoint"
    /\ UNCHANGED <<apiVars, ro, rtext, giVars, log, reqInStep, reqIndent, regVars, loadVars, ros, resVars>>

\* the last yield of a compiled recipe
RecipeLastYield ==
    /\ pc = "running"
    /\ Top.ph = "next"
    /\ Top.ip > Len(Top.substeps)
    /\ stack' = SetTop([Top EXCEPT !.ph = "fin"])
    /\ pc' = "checkpoint"
    /\ UNCHANGED <<ctxVars, apiVars, ro, rtext, giVars, log, reqInStep, reqIndent, regVars, loadVars, ros, resVars>>

\* a compiled recipe's generator is exhausted: the substeps() call that
\* ran it goes on, or the driver's loop ends
RecipeReturn ==
    /\ pc = "running"
    /\ Top.ph = "fin"
    /\ IF Len(stack) = 1
       THEN /\ stack' = <<>>
            /\ pc' = "done"
       ELSE /\ stack' = [SubSeq(stack, 1, Len(stack) - 1) EXCEPT
                           ![Len(stack) - 1].ph = "returned",
                           ![Len(stack) - 1].nested =
                               (Top.substeps # <<>>)]
            /\ pc' = pc
    /\ UNCHANGED <<ctxVars, apiVars, ro, rtext, giVars, log, reqInStep, reqIndent, regVars, loadVars, ros, resVars>>

\* requestPause() from outside, at any moment of the run
RunRequestPause ==
    /\ pc \in {"pull", "running", "checkpoint"}
    /\ ctx.cmdRequest # "pause"
    /\ ctx' = requestPause(ctx)
    /\ reqInStep' = (ctx.indent > 0)
    /\ reqIndent' = ctx.indent
    /\ UNCHANGED <<clock, nSame, apiVars, ro, rtext, giVars, stack, pc, log, regVars, loadVars, ros, resVars>>

\* unpause() from outside, once the context is paused
RunUnpause ==
    /\ ctx.status = "PAUSED"
    /\ ctx' = unpause(ctx)
    /\ UNCHANGED <<clock, nSame, apiVars, runVars, giVars, regVars, loadVars, ros, resVars>>

InitRun ==
    /\ ctx = addInput(NewContext, "a.fits")
    /\ clock = 0
    /\ nSame = 0
    /\ IdleApi
    /\ IdleInteractive
    /\ ro = [prims |-> Primitives, bound |-> [n \in {} |-> 0]]
    /\ \E main \in RecipeTexts, withSub \in BOOLEAN :
          rtext = [n \in {MainRecipe} \cup (IF withSub THEN {SubRecipe} ELSE {})
                     |-> IF n = MainRecipe THEN main ELSE SubRecipeText]
    /\ stack = <<>>
    /\ pc = "idle"
    /\ log = <<>>
    /\ reqInStep = FALSE
    /\ reqIndent = -1
    /\ IdleRegistry
    /\ IdleResolve

NextRun ==
    \/ StartRun
    \/ DriverPull
    \/ DriverCheckpoint
    \/ SubstepsBegin
    \/ PrimitiveBody
    \/ PrimitiveRaises
    \/ SubstepsEnd
    \/ RecipeLastYield
    \/ RecipeReturn
    \/ RunRequestPause
    \/ RunUnpause

SpecRun == InitRun /\ [][NextRun]_vars

\* the run under a driver that keeps pulling and a caller that unpauses a
\* paused context: the driver and the generators are one thread of
\* control, which goes on whenever it can, and unpause() comes while the
\* context stays paused
RunStep ==
    \/ StartRun
    \/ DriverPull
    \/ DriverCheckpoint
    \/ SubstepsBegin
    \/ PrimitiveBody
    \/ PrimitiveRaises
    \/ SubstepsEnd
    \/ RecipeLastYield
    \/ RecipeReturn
InitRunFair ==
    /\ InitRun
    /\ rtext[MainRecipe] \in
          {JoinLines(ls) : ls \in UNION {[1..k -> LineChoices] : k \in 0..MaxFairLines}}
SpecRunFair ==
    InitRunFair /\ [][NextRun]_vars /\ WF_vars(RunStep) /\ WF_vars(RunUnpause)

\* ------------------------------------------------ retrieveReductionObject
\* the classification types and, for each, the types it is a subtype of
Types == {"GEMINI", "GMOS", "IMAGE", "GMOS_IMAGE", "GSAOI"}
Supertypes ==
    [t \in Types |->
        CASE t = "GMOS_IMAGE" -> {"GMOS", "IMAGE", "GEMINI"}
          [] t = "GMOS"       -> {"GEMINI"}
          [] t = "GSAOI"      -> {"GEMINI"}
          [] OTHER            -> {}]

\* ClassificationType.isSubtypeOf
isSubtypeOf(a, b) == b \in Supertypes[a]

\* the primitives module of a type, and its class
ModuleOf(t) == <<"reduction_" \o t \o ".py", t \o "Primitives">>

\* what a call ends with: the exception raised ("" if none) with its
\* message, and the type whose class the returned object instantiates
Returned(t) == [exc |-> "", msg |-> "", rotype |-> Some(t)]
Raised(exc, msg) == [exc |-> exc, msg |-> msg, rotype |-> None]

\* openIfName(dataset): dataset.kind is the Python type of the argument
openIfName(dataset) ==
    IF dataset.kind = "str"
    THEN [exc |-> "", gd |-> dataset, bNeedsClosing |-> TRUE]
    ELSE IF dataset.kind = "AstroData"
    THEN [exc |-> "", gd |-> dataset, bNeedsClosing |-> FALSE]
    ELSE [exc |-> "RecipeExcept", gd |-> dataset, bNeedsClosing |-> FALSE]

\* the builtin type that the name file denotes in retrieveReductionObject,
\* which has no local or global of that name
FileBuiltin == [kind |-> "type", types |-> <<>>]

\* the loop over gd.getTypes() and the instantiation after it, st holding
\* the loop's locals: ropath and rotyp (None before the first type) and
\* rpathname (None while unbound)
RECURSIVE ResolveTypes(_, _, _, _)
ResolveTypes(types, st, cpi, crm) ==
    IF types = <<>>
    THEN \* importname = os.path.splitext(ropath)[0], the import, then
         \* centralPrimitivesIndex[rotype]: no name rotype is ever bound
         IF st.ropath = None
         THEN Raised("AttributeError", "NoneType")
         ELSE Raised("NameError", "rotype")
    ELSE LET typ == Head(types)
             bound == typ \in DOMAIN cpi
             mapped == bound /\ cpi[typ][1] \in DOMAIN crm
             rpathname == IF mapped THEN Some(crm[cpi[typ][1]])
                          ELSE st.rpathname
         IN IF bound /\ ~mapped
            THEN Raised("RecipeExcept", "Error in centralReductionMap")
            ELSE IF rpathname = None
            THEN Raised("UnboundLocalError", "rpathname")
            ELSE IF st.ropath = None
            THEN ResolveTypes(Tail(types),
                              [ropath |-> rpathname, rotyp |-> Some(typ),
                               rpathname |-> rpathname], cpi, crm)
            ELSE IF isSubtypeOf(typ, st.rotyp[1])
            THEN ResolveTypes(Tail(types),
                              [ropath |-> rpathname, rotyp |-> Some(typ),
                               rpathname |-> rpathname], cpi, crm)
            ELSE \* ot = cl.getTypeObj(rotyp): no name cl is ever bound
                 Raised("NameError", "cl")

\* retrieveReductionObject without the test that astrotype is in the index
retrieveReductionObject_unchecked(dataset, astrotype, cpi, crm, strExc) ==
    IF astrotype # None
    THEN Returned(astrotype[1])
    ELSE IF dataset # None
    THEN Raised("RecipeExcept", "BadArgument in recipe utility function: openIfName(..)")
    ELSE Raised(strExc, "Tried to retrive base Reduction Object")

\* retrieveReductionObject(dataset, astrotype); strExc is what raising a
\* str does in the Python that runs the module
retrieveReductionObject(dataset, astrotype, cpi, crm, strExc) ==
    IF astrotype # None /\ astrotype[1] \in DOMAIN cpi
    THEN IF cpi[astrotype[1]][1] \in DOMAIN crm
         THEN Returned(astrotype[1])
         ELSE Raised("KeyError", cpi[astrotype[1]][1])
    ELSE IF dataset # None
    THEN LET o == openIfName(FileBuiltin) IN
         IF o.exc # ""
         THEN Raised(o.exc, "BadArgument in recipe utility function: openIfName(..)")
         ELSE ResolveTypes(o.gd.types,
                           [ropath |-> None, rotyp |-> None, rpathname |-> None],
                           cpi, crm)
    ELSE Raised(strExc, "Tried to retrive base Reduction Object")

\* the orderings of the subsets of S
Orderings(S) ==
    UNION {{f \in [1..Cardinality(T) -> T] : \A i, j \in 1..Cardinality(T) :
                                                 i # j => f[i] # f[j]}
           : T \in SUBSET S}

\* the datasets a caller passes: a file name or an open AstroData, with
\* the types that apply to it in the order getTypes() lists them
Datasets ==
    {[kind |-> k, types |-> ts] : k \in {"str", "AstroData"},
                                   ts \in Orderings(Types)}

\* the call of retrieveReductionObject that opens an execution
Call_retrieveReductionObject ==
    /\ res = [exc |-> "", msg |-> "", rotype |-> None]
    /\ \E dataset \in {None} \cup {Some(d) : d \in Datasets},
          astrotype \in {None} \cup {Some(t) : t \in Types},
          strExc \in {"str", "TypeError"} :
          /\ req' = [dataset |-> dataset, astrotype |-> astrotype]
          /\ res' = retrieveReductionObject(
                        IF dataset = None THEN None ELSE dataset[1],
                        astrotype, centralPrimitivesIndex,
                        centralReductionMap, strExc)
    /\ UNCHANGED <<ctxVars, apiVars, runVars, giVars, regVars, loadVars, ros>>

\* the registry after startup: some types have a primitives module, and
\* the modules found in the configuration space are mapped to their paths
InitResolve ==
    /\ ctx = NewContext
    /\ clock = 0
    /\ nSame = 0
    /\ IdleApi
    /\ IdleInteractive
    /\ IdleRun
    /\ \E B \in SUBSET Types, M \in SUBSET Types :
          /\ M \in {B, B \ {"GSAOI"}}
          /\ centralPrimitivesIndex = [t \in B |-> ModuleOf(t)]
          /\ centralReductionMap =
                [f \in {ModuleOf(t)[1] : t \in M} |-> "/recipes/" \o f]
    /\ IdleRecipes
    /\ IdleLoad
    /\ IdleBind
    /\ IdleResolve

NextResolve == Call_retrieveReductionObject

SpecResolve == InitResolve /\ [][NextResolve]_vars

\* ------------------------------------------------ building the registry
\* the directories configWalk("recipes") yields
Roots == {"/cfgA", "/cfgB"}

\* a file recipe.<recname>: recname is <name> or <name>.<type>
RecipeFile(root, name, astrotype) ==
    [root |-> root, kind |-> "recipe", name |-> name, astrotype |-> astrotype]
\* a file primitivesIndex.<modname>.py, which sets localPrimitiveIndex
PrimitivesIndexFile(root, modname, decl) ==
    [root |-> root, kind |-> "primitivesIndex", modname |-> modname,
     decl |-> decl]
\* a file reduction_<redname>.py
ReductionFile(root, redname) ==
    [root |-> root, kind |-> "reduction", redname |-> redname]
\* a file recipeIndex.<modname>.py, which sets localAstroTypeRecipeIndex
RecipeIndexFile(root, modname, decl) ==
    [root |-> root, kind |-> "recipeIndex", modname |-> modname, decl |-> decl]

\* the name of a file, which the masks of lines 665-673 match
FileName(f) ==
    CASE f.kind = "recipe" ->
            "recipe." \o f.name \o
            (IF f.astrotype = None THEN "" ELSE "." \o f.astrotype[1])
      [] f.kind = "primitivesIndex" -> "primitivesIndex." \o f.modname \o ".py"
      [] f.kind = "reduction" -> "reduction_" \o f.redname \o ".py"
      [] f.kind = "recipeIndex" -> "recipeIndex." \o f.modname \o ".py"

\* m.group("recipename") of recipeREMask: what follows "recipe."
RecName(f) ==
    f.name \o (IF f.astrotype = None THEN "" ELSE "." \o f.astrotype[1])

\* os.path.join(root, sfilename)
FullPath(f) == f.root \o "/" \o FileName(f)

\* the recipe files of the configuration space; one is an empty file, one
\* has the name of a primitive and one the name of a type
RecipeFiles ==
    { RecipeFile("/cfgA", "makeProcessedDark", None),
      RecipeFile("/cfgA", "makeProcessedDark", Some("GSAOI")),
      RecipeFile("/cfgB", "makeProcessedDark", Some("GMOS")),
      RecipeFile("/cfgB", "p", None),
      RecipeFile("/cfgB", "GSAOI", None) }

\* file(fname, "r").read() for a recipe file
RecipeFileText(fname) ==
    CASE fname = "/cfgA/recipe.makeProcessedDark" -> <<"p", "\n", "q">>
      [] fname = "/cfgA/recipe.makeProcessedDark.GSAOI" -> <<"q">>
      [] fname = "/cfgB/recipe.makeProcessedDark.GMOS" -> <<>>
      [] fname = "/cfgB/recipe.p" -> <<"#", "\n", "q">>
      [] fname = "/cfgB/recipe.GSAOI" -> <<"p">>

\* the primitives indexes: both declare GMOS, with different modules
PrimitivesIndexFiles ==
    { PrimitivesIndexFile("/cfgA", "Gemini",
          [t \in {"GMOS", "GMOS_IMAGE"} |-> ModuleOf(t)]),
      PrimitivesIndexFile("/cfgB", "Local",
          [t \in {"GMOS", "GSAOI"} |->
              IF t = "GMOS" THEN <<"reduction_GMOSlocal.py", "GMOSPrimitives">>
              ELSE ModuleOf(t)]) }

ReductionFiles ==
    { ReductionFile("/cfgA", "GMOS"), ReductionFile("/cfgB", "GSAOI") }

\* the recipe indexes: both declare GMOS, with different recipes
RecipeIndexFiles ==
    { RecipeIndexFile("/cfgA", "Gemini",
          [t \in {"GMOS", "GSAOI"} |->
              IF t = "GMOS" THEN <<"makeProcessedDark">> ELSE <<"p">>]),
      RecipeIndexFile("/cfgB", "Local",
          [t \in {"GMOS"} |-> <<"makeProcessedBias">>]) }

ConfigFiles ==
    RecipeFiles \cup PrimitivesIndexFiles \cup ReductionFiles
    \cup RecipeIndexFiles

\* the directory the walk is in: the first that has files left
Here == CHOOSE i \in 1..Len(pending) :
            /\ pending[i] # {}
            /\ \A j \in 1..(i - 1) : pending[j] = {}

Walking == loadExc = "" /\ \E i \in 1..Len(pending) : pending[i] # {}

\* the import of the module has run to its end
Loaded == loadExc = "" /\ \A i \in 1..Len(pending) : pending[i] = {}

\* the loop of the walk has come to file f
Walk(f) ==
    /\ pending' = [pending EXCEPT ![Here] = @ \ {f}]
    /\ walked' = walked \cup {f}

\* dict.update(other)
DictUpdateAll(d, other) ==
    [k \in DOMAIN d \cup DOMAIN other |->
        IF k \in DOMAIN other THEN other[k] ELSE d[k]]

\* a recipe file: centralRecipeIndex.update({recname: fullpath})
WalkRecipeFile ==
    /\ Walking
    /\ \E f \in pending[Here] :
          /\ f.kind = "recipe"
          /\ Walk(f)
          /\ centralRecipeIndex' =
                DictUpdate(centralRecipeIndex, RecName(f), FullPath(f))
    /\ UNCHANGED <<ctxVars, apiVars, runVars, giVars, centralPrimitivesIndex,
                   centralReductionMap, centralAstroTypeRecipeIndex, loadExc,
                   ros, resVars>>

\* a primitives index without a test for keys already registered
WalkPrimitivesIndex ==
    /\ Walking
    /\ \E f \in pending[Here] :
          /\ f.kind = "primitivesIndex"
          /\ Walk(f)
          /\ centralPrimitivesIndex' =
                DictUpdateAll(centralPrimitivesIndex, f.decl)
    /\ UNCHANGED <<ctxVars, apiVars, runVars, giVars, centralRecipeIndex,
                   centralReductionMap, centralAstroTypeRecipeIndex, loadExc,
                   ros, resVars>>

\* a reduction object file: centralReductionMap.update({sfilename: fullpath})
WalkReductionFile ==
    /\ Walking
    /\ \E f \in pending[Here] :
          /\ f.kind = "reduction"
          /\ Walk(f)
          /\ centralReductionMap' =
                DictUpdate(centralReductionMap, FileName(f), FullPath(f))
    /\ UNCHANGED <<ctxVars, apiVars, runVars, giVars, centralPrimitivesIndex,
                   centralRecipeIndex, centralAstroTypeRecipeIndex, loadExc,
                   ros, resVars>>

\* a recipe index: a key of the declaration that is a key of the
\* centralRecipeIndex makes the loop call append on the path stored there,
\* a str; otherwise the declaration is written over the index
WalkRecipeIndex ==
    /\ Walking
    /\ \E f \in pending[Here] :
          /\ f.kind = "recipeIndex"
          /\ Walk(f)
          /\ IF \E key \in DOMAIN f.decl : key \in DOMAIN centralRecipeIndex
             THEN /\ loadExc' = "AttributeError"
                  /\ UNCHANGED centralAstroTypeRecipeIndex
             ELSE /\ centralAstroTypeRecipeIndex' =
                        DictUpdateAll(centralAstroTypeRecipeIndex, f.decl)
                  /\ UNCHANGED loadExc
    /\ UNCHANGED <<ctxVars, apiVars, runVars, giVars, centralPrimitivesIndex,
                   centralRecipeIndex, centralReductionMap, ros, resVars>>

\* ------------------------------------------------ looking recipes up
\* retrieveRecipe(name, astrotype): the text of the file registered under
\* name.astrotype, else of the one registered under name, else None
retrieveRecipe_defaultFirst(name, astrotype, cri) ==
    LET akey == IF astrotype # None THEN name \o "." \o astrotype[1]
                ELSE name \o ".None"
    IN IF name \in DOMAIN cri THEN Some(RecipeFileText(cri[name]))
       ELSE IF akey \in DOMAIN cri THEN Some(RecipeFileText(cri[akey]))
       ELSE None

retrieveRecipe(name, astrotype, cri) ==
    LET akey == IF astrotype # None THEN name \o "." \o astrotype[1]
                ELSE name \o ".None"
        key == name
    IN IF akey \in DOMAIN cri THEN Some(RecipeFileText(cri[akey]))
       ELSE IF key \in DOMAIN cri THEN Some(RecipeFileText(cri[key]))
       ELSE None

\* the names recipes are asked for by
RecipeNames == {"makeProcessedDark", "p", "reduce"}

\* the types of the dataset a file name opens, as GeminiData(...).getTypes()
\* lists them
FileTypes(fname) ==
    IF fname = "a.fits" THEN <<"GMOS_IMAGE", "GMOS", "IMAGE", "GEMINI">>
    ELSE <<"GEMINI", "GSAOI">>

RECURSIVE ExtendAll(_, _)
\* reclist after reclist.extend(index[typ]) for every typ of types in index
ExtendAll(types, index) ==
    IF types = <<>> THEN <<>>
    ELSE (IF Head(types) \in DOMAIN index THEN index[Head(types)] ELSE <<>>)
         \o ExtendAll(Tail(types), index)

\* getApplicableRecipes(dataset, collate): a dataset that is not a str
\* reaches isinstance(dataset, AstroData.AstroData), AstroData being the
\* class, which has no attribute of that name
getApplicableRecipes(dataset, collate, cari) ==
    IF dataset.kind = "str"
    THEN LET types == dataset.types
         IN IF collate
            THEN [exc |-> "",
                  value |-> [t \in {types[i] : i \in 1..Len(types)}
                                   \cap DOMAIN cari |-> cari[t]]]
            ELSE [exc |-> "", value |-> ExtendAll(types, cari)]
    ELSE [exc |-> "AttributeError", value |-> None]

\* a call of retrieveRecipe once the module is imported
Call_retrieveRecipe ==
    /\ Loaded
    /\ req = [dataset |-> None, astrotype |-> None]
    /\ \E name \in RecipeNames, astrotype \in {None} \cup {Some(t) : t \in Types} :
          /\ req' = [op |-> "retrieveRecipe", name |-> name,
                     astrotype |-> astrotype]
          /\ res' = [exc |-> "",
                     value |-> retrieveRecipe(name, astrotype, centralRecipeIndex)]
    /\ UNCHANGED <<ctxVars, apiVars, runVars, giVars, regVars, loadVars, ros>>

\* a call of getApplicableRecipes once the module is imported
Call_getApplicableRecipes ==
    /\ Loaded
    /\ req = [dataset |-> None, astrotype |-> None]
    /\ \E fname \in Files, kind \in {"str", "AstroData"}, collate \in BOOLEAN :
          LET dataset == [kind |-> kind, types |-> FileTypes(fname)]
          IN /\ req' = [op |-> "getApplicableRecipes", dataset |-> dataset,
                        collate |-> collate]
             /\ res' = getApplicableRecipes(dataset, collate,
                                            centralAstroTypeRecipeIndex)
    /\ UNCHANGED <<ctxVars, apiVars, runVars, giVars, regVars, loadVars, ros>>

\* the import of the module: the four indexes are empty and the walk is
\* about to visit the directories, in one order or the other
InitRegistry ==
    /\ ctx = NewContext
    /\ clock = 0
    /\ nSame = 0
    /\ IdleApi
    /\ IdleInteractive
    /\ IdleRun
    /\ centralPrimitivesIndex = [t \in {} |-> <<>>]
    /\ centralReductionMap = [f \in {} |-> ""]
    /\ IdleRecipes
    /\ \E present \in SUBSET ConfigFiles, first \in Roots :
          pending = << {f \in present : f.root = first},
                       {f \in present : f.root # first} >>
    /\ walked = {}
    /\ loadExc = ""
    /\ IdleBind
    /\ IdleResolve

NextRegistry ==
    \/ WalkRecipeFile
    \/ WalkPrimitivesIndex
    \/ WalkReductionFile
    \/ WalkRecipeIndex
    \/ Call_retrieveRecipe
    \/ Call_getApplicableRecipes

SpecRegistry == InitRegistry /\ [][NextRegistry]_vars

\* ------------------------------------------------ binding recipes
\* the most reduction objects and the most calls on them
MaxObjects == 2
MaxBinds == 3

\* the primitives the class of the reduction objects defines
NativePrimitives == {"p", "q"}

\* ReductionObject(): an instance with no attribute of its own
NewReductionObject == [prims |-> NativePrimitives, bound |-> [n \in {} |-> 0]]

\* redobj.<name>: the instance attribute if there is one, else the method
\* of the class
GetAttr(redobj, name) ==
    IF name \in DOMAIN redobj.bound
    THEN [exc |-> "", kind |-> "recipe", func |-> redobj.bound[name]]
    ELSE IF name \in redobj.prims
    THEN [exc |-> "", kind |-> "primitive", func |-> name]
    ELSE [exc |-> "AttributeError", kind |-> "", func |-> name]

\* the loop of loadAndBindRecipe over the types of the dataset
RECURSIVE BindForTypes(_, _, _, _)
BindForTypes(redobj, name, types, cri) ==
    IF types = <<>> THEN redobj
    ELSE BindForTypes(
             BindIfFound(redobj, name,
                         retrieveRecipe(name, Some(Head(types)), cri)),
             name, Tail(types), cri)

\* loadAndBindRecipe(ro, name, file, astrotype): ro after the call and the
\* exception raised
loadAndBindRecipe(redobj, name, file, astrotype, cri) ==
    IF astrotype # None
    THEN [exc |-> "",
          ro |-> BindIfFound(redobj, name, retrieveRecipe(name, astrotype, cri))]
    ELSE IF file # None
    THEN LET o == openIfName(file[1])
         IN IF o.exc # ""
            THEN [exc |-> o.exc, ro |-> redobj]
            ELSE [exc |-> "", ro |-> BindForTypes(redobj, name, o.gd.types, cri)]
    ELSE [exc |-> "", ro |-> redobj]

\* the dataset a file name stands for
Named(fname) == [kind |-> "str", types |-> FileTypes(fname)]

\* checkAndBind(redobj, name, context): the value returned as well
checkAndBind(redobj, name, context, cri) ==
    IF checkMethod(redobj, name)
    THEN [exc |-> "", value |-> Some(FALSE), ro |-> redobj]
    ELSE IF context = None
    THEN [exc |-> "AttributeError", value |-> None, ro |-> redobj]
    ELSE IF context[1].inputs = <<>>
    THEN [exc |-> "IndexError", value |-> None, ro |-> redobj]
    ELSE LET r == loadAndBindRecipe(redobj, name,
                                    Some(Named(context[1].inputs[1])), None, cri)
         IN IF r.exc # ""
            THEN [exc |-> r.exc, value |-> None, ro |-> r.ro]
            ELSE [exc |-> "", value |-> Some(TRUE), ro |-> r.ro]

\* the object a reference denotes, changed in place, as every object of
\* its type
SetObject_perType(objs, i, o) ==
    [j \in DOMAIN objs |-> [objs[j] EXCEPT !.bound = o.bound]]

\* the object a reference denotes, changed in place
SetObject(objs, i, o) == [objs EXCEPT ![i] = o]

\* the functions bindRecipe is called with
RecipeFuncs ==
    {compileRecipe("f", composeRecipe("f", t)) : t \in {<<>>, <<"p">>}}

\* the names recipes are bound under
BindNames == {"makeProcessedDark", "p"}

\* the types recipes are loaded for
BindTypes == {"GSAOI", "GMOS", "GMOS_IMAGE"}

\* the datasets recipes are loaded for
BindDatasets ==
    {Named(f) : f \in Files}
    \cup {[kind |-> "AstroData", types |-> ts] : ts \in Orderings({"GSAOI", "GMOS"})}

\* the contexts checkAndBind is called with
BindContexts ==
    {None, Some(NewContext)} \cup {Some(addInput(NewContext, f)) : f \in Files}

\* a reduction object is made
Call_ReductionObject ==
    /\ Len(ros) < MaxObjects
    /\ ros' = Append(ros, NewReductionObject)
    /\ UNCHANGED <<ctxVars, apiVars, runVars, giVars, regVars, loadVars, resVars>>

\* a call on the library that forgets the recipes registered (used to test
\* the claims)
OnObject_forgetting(r, i, o, e, v) ==
    /\ nCalls < MaxBinds
    /\ nCalls' = nCalls + 1
    /\ req' = r
    /\ ros' = SetObject(ros, i, o)
    /\ res' = [exc |-> e, value |-> v]
    /\ centralRecipeIndex' = [k \in {} |-> ""]
    /\ UNCHANGED <<ctxVars, lastOp, firstPush, runVars, giVars, centralPrimitivesIndex,
                   centralReductionMap, centralAstroTypeRecipeIndex, loadVars>>

\* one call on the library that works on the i-th reduction object
OnObject(r, i, o, e, v) ==
    /\ nCalls < MaxBinds
    /\ nCalls' = nCalls + 1
    /\ req' = r
    /\ ros' = SetObject(ros, i, o)
    /\ res' = [exc |-> e, value |-> v]
    /\ UNCHANGED <<ctxVars, lastOp, firstPush, runVars, giVars, regVars, loadVars>>

Call_bindRecipe ==
    \E i \in 1..Len(ros), name \in BindNames, func \in RecipeFuncs :
        OnObject([op |-> "bindRecipe", obj |-> i, name |-> name, func |-> func],
              i, bindRecipe(ros[i], name, func), "", Some(i))

Call_loadAndBindRecipe ==
    \E i \in 1..Len(ros), name \in BindNames,
       file \in {None} \cup {Some(d) : d \in BindDatasets},
       astrotype \in {None} \cup {Some(t) : t \in BindTypes} :
        LET r == loadAndBindRecipe(ros[i], name, file, astrotype,
                                   centralRecipeIndex)
        IN /\ file = None \/ astrotype = None
           /\ OnObject([op |-> "loadAndBindRecipe", obj |-> i, name |-> name,
                     file |-> file, astrotype |-> astrotype],
                    i, r.ro, r.exc, None)

Call_checkAndBind ==
    \E i \in 1..Len(ros), name \in BindNames, context \in BindContexts :
        LET r == checkAndBind(ros[i], name, context, centralRecipeIndex)
        IN OnObject([op |-> "checkAndBind", obj |-> i, name |-> name,
                  context |-> context],
                 i, r.ro, r.exc, r.value)

\* the recipe files that take part in binding
BindRecipeFiles == {f \in RecipeFiles : f.name \in BindNames}

\* after the import of the module: the recipe files of the configuration
\* space are registered and no reduction object is made yet
InitBind ==
    /\ ctx = NewContext
    /\ clock = 0
    /\ nSame = 0
    /\ IdleApi
    /\ IdleInteractive
    /\ IdleRun
    /\ centralPrimitivesIndex = [t \in {} |-> <<>>]
    /\ centralReductionMap = [f \in {} |-> ""]
    /\ centralAstroTypeRecipeIndex = [t \in {} |-> <<>>]
    /\ \E present \in SUBSET BindRecipeFiles :
          /\ walked = present
          /\ centralRecipeIndex =
                [k \in {RecName(f) : f \in present} |->
                    FullPath(CHOOSE f \in present : RecName(f) = k)]
    /\ pending = <<{}, {}>>
    /\ loadExc = ""
    /\ ros = <<>>
    /\ IdleResolve

NextBind ==
    \/ Call_ReductionObject
    \/ Call_bindRecipe
    \/ Call_loadAndBindRecipe
    \/ Call_checkAndBind

SpecBind == InitBind /\ [][NextBind]_vars

\* ------------------------------------------------ apertures
\* the most GIApertureViews, the most calls on the aperture objects and
\* the largest id delete_aperture and adjust_aperture are called with
MaxViews == 2
MaxApCalls == 5
MaxId == 3

\* the x-ranges of apertures
Ranges == {<<0, 1>>, <<2, 3>>}

\* GIApertureModel.__init__
NewApertureModel == [aperture_id |-> 1, spare_ids |-> <<>>]

\* GIApertureView.__init__ on a figure that is attached to a document or
\* is not; made counts the GISingleApertureViews it has created
NewApertureView(document) ==
    [aps |-> [i \in {} |-> 0], document |-> document, made |-> 0]

\* GISingleApertureView.__init__ (stop is the parameter end): build_ui runs at once when the figure
\* has no document, else it is left to the document's next tick; shown
\* tells whether its lines are among the figure's renderers
NewSingleApertureView(document, start, stop, serial) ==
    [start |-> start, end |-> stop, built |-> ~document, shown |-> ~document,
     serial |-> serial]

\* GISingleApertureView.build_ui
build_ui(ap) == [ap EXCEPT !.built = TRUE, !.shown = TRUE]

\* GISingleApertureView.update: before build_ui self.box is None
SingleUpdate(ap, start, stop) ==
    IF ~ap.built THEN [ap |-> ap, exc |-> "AttributeError"]
    ELSE [ap |-> [ap EXCEPT !.start = start, !.end = stop], exc |-> ""]

\* GISingleApertureView.delete: before build_ui self.gifig is None, and
\* renderers.remove raises for a line that is not among the renderers
SingleDelete(ap) ==
    IF ~ap.built THEN [ap |-> ap, exc |-> "AttributeError"]
    ELSE IF ~ap.shown THEN [ap |-> ap, exc |-> "ValueError"]
    ELSE [ap |-> [ap EXCEPT !.shown = FALSE], exc |-> ""]

\* GIApertureView.handle_aperture
handle_aperture(v, aperture_id, start, stop) ==
    IF aperture_id \in DOMAIN v.aps
    THEN LET r == SingleUpdate(v.aps[aperture_id], start, stop)
         IN [v |-> [v EXCEPT !.aps[aperture_id] = r.ap], exc |-> r.exc]
    ELSE [v |-> [v EXCEPT
                   !.aps = DictUpdate(@, aperture_id,
                              NewSingleApertureView(v.document, start, stop,
                                                    v.made + 1)),
                   !.made = @ + 1],
          exc |-> ""]

\* GIApertureView.delete_aperture
ViewDelete(v, aperture_id) ==
    IF aperture_id \in DOMAIN v.aps
    THEN LET r == SingleDelete(v.aps[aperture_id])
         IN [v |-> [v EXCEPT !.aps[aperture_id] = r.ap], exc |-> r.exc]
    ELSE [v |-> v, exc |-> ""]

\* "for l in self.listeners: l.<method>(...)": the views in order, up to
\* the first that raises; r[i] is what the method does to view i
NotifyAll(views, r) ==
    LET raising == {i \in 1..Len(views) : r[i].exc # ""}
        first == IF raising = {} THEN Len(views)
                 ELSE CHOOSE i \in raising : \A j \in raising : i <= j
    IN [views |-> [i \in 1..Len(views) |->
                      IF i <= first THEN r[i].v ELSE views[i]],
        exc |-> IF raising = {} THEN "" ELSE r[first].exc]

\* GIApertureModel.adjust_aperture
adjust_aperture(views, aperture_id, start, stop) ==
    NotifyAll(views, [i \in 1..Len(views) |->
                         handle_aperture(views[i], aperture_id, start, stop)])

\* GIApertureModel.add_aperture: the model and the views after it, the
\* id taken, and the exception raised
add_aperture(m, views, start, stop) ==
    LET pooled == m.spare_ids # <<>>
        aperture_id == IF pooled THEN Head(m.spare_ids) ELSE m.aperture_id
        m1 == IF pooled THEN [m EXCEPT !.spare_ids = Tail(@)]
              ELSE [m EXCEPT !.aperture_id = @ + 1]
        r == adjust_aperture(views, aperture_id, start, stop)
    IN [m |-> m1, views |-> r.views, id |-> aperture_id, exc |-> r.exc]

\* GIApertureModel.delete_aperture
delete_aperture(m, views, aperture_id) ==
    LET r == NotifyAll(views, [i \in 1..Len(views) |->
                                  ViewDelete(views[i], aperture_id)])
    IN [m |-> IF r.exc = "" THEN [m EXCEPT !.spare_ids = Append(@, aperture_id)]
              ELSE m,
        views |-> r.views, exc |-> r.exc]

\* one call on the aperture objects
OnApertures(op, m, views, lv) ==
    /\ nCalls < MaxApCalls
    /\ nCalls' = nCalls + 1
    /\ am' = m
    /\ aviews' = views
    /\ live' = lv
    /\ giOp' = op
    /\ UNCHANGED <<ctxVars, lastOp, firstPush, runVars, regVars, loadVars, ros,
                   resVars, dmod, heard>>

\* a GIApertureView is made on the model
Call_GIApertureView ==
    /\ Len(aviews) < MaxViews
    /\ \E document \in BOOLEAN :
          OnApertures([op |-> "GIApertureView", exc |-> ""],
                      am, Append(aviews, NewApertureView(document)), live)

Call_add_aperture ==
    \E rg \in Ranges :
        LET r == add_aperture(am, aviews, rg[1], rg[2])
        IN OnApertures([op |-> "add_aperture", exc |-> r.exc, id |-> r.id,
                        pooled |-> am.spare_ids # <<>>],
                       r.m, r.views,
                       IF r.exc = "" THEN Append(live, r.id) ELSE live)

Call_adjust_aperture ==
    \E aperture_id \in 1..MaxId, rg \in Ranges :
        LET r == adjust_aperture(aviews, aperture_id, rg[1], rg[2])
        IN OnApertures([op |-> "adjust_aperture", exc |-> r.exc,
                        id |-> aperture_id],
                       am, r.views, live)

Call_delete_aperture ==
    \E aperture_id \in 1..MaxId :
        LET r == delete_aperture(am, aviews, aperture_id)
            others(x) == x # aperture_id
        IN OnApertures([op |-> "delete_aperture", exc |-> r.exc,
                        id |-> aperture_id],
                       r.m, r.views,
                       IF r.exc = "" THEN SelectSeq(live, others) ELSE live)

\* the next tick of the document of a view's figure: the build_ui calls
\* left to it run
NextTick ==
    \E i \in 1..Len(aviews) :
        /\ \E a \in DOMAIN aviews[i].aps : ~aviews[i].aps[a].built
        /\ aviews' = [aviews EXCEPT ![i].aps =
                         [a \in DOMAIN @ |-> build_ui(@[a])]]
        /\ UNCHANGED <<ctxVars, apiVars, runVars, regVars, loadVars, ros,
                       resVars, am, live, dmod, heard, giOp>>

InitApertures ==
    /\ ctx = NewContext
    /\ clock = 0
    /\ nSame = 0
    /\ IdleApi
    /\ IdleRun
    /\ IdleRegistry
    /\ IdleResolve
    /\ am = NewApertureModel
    /\ aviews = <<>>
    /\ live = <<>>
    /\ dmod = [data_x_coords |-> None, data_y_coords |-> None, k |-> 0]
    /\ heard = <<>>
    /\ giOp = [op |-> "__init__", exc |-> ""]

NextApertures ==
    \/ Call_GIApertureView
    \/ Call_add_aperture
    \/ Call_adjust_aperture
    \/ Call_delete_aperture
    \/ NextTick

SpecApertures == InitApertures /\ [][NextApertures]_vars

\* ------------------------------------------------ differencing model
\* the most listeners of the GIDifferencingModel, the most calls on it and
\* on its sources, and the length and the largest value of a coordinate
\* array
MaxListeners == 2
MaxDiffCalls == 4
CoordLen == 2
MaxCoord == 1

\* the coordinate arrays, and the parameters of the model fn computes with
Arrays == [1..CoordLen -> 0..MaxCoord]
ModelParams == 0..1

\* GIDifferencingModel.__init__
NewDifferencingModel ==
    [data_x_coords |-> None, data_y_coords |-> None, k |-> 0]

\* fn(x): the y-values of a model with parameter k
fn(k, x) == [i \in DOMAIN x |-> x[i] + k]

\* y - fn(x), on arrays
Minus(y, fx) == [i \in DOMAIN y |-> y[i] - fx[i]]

\* GICoordsSource.notify_coord_listeners on the listeners of the
\* differencing model: each is called with (x, y)
notify_coord_listeners(h, x_coords, y_coords) ==
    [i \in DOMAIN h |-> Append(h[i], <<x_coords, y_coords>>)]

\* GIDifferencingModel.update_coords
update_coords(d, x_coords, y_coords) ==
    [d EXCEPT !.data_x_coords = Some(x_coords), !.data_y_coords = Some(y_coords)]

\* GIDifferencingModel.update_model: with no coordinates yet,
\* None - fn(None) raises
update_model(d, h) ==
    IF d.data_x_coords = None
    THEN [heard |-> h, exc |-> "TypeError"]
    ELSE LET x == d.data_x_coords[1]
             y == Minus(d.data_y_coords[1], fn(d.k, x))
         IN [heard |-> notify_coord_listeners(h, x, y), exc |-> ""]

\* GIDifferencingModel.add_coord_listener: a listener added when
\* coordinates are held is called with the differences at once
add_coord_listener(d, h) ==
    IF d.data_x_coords # None
    THEN Append(h, <<<<d.data_x_coords[1],
                       Minus(d.data_y_coords[1], fn(d.k, d.data_x_coords[1]))>>>>)
    ELSE Append(h, <<>>)

\* one call on the differencing model or on one of its sources
OnDifferencing(op, d, h) ==
    /\ nCalls < MaxDiffCalls
    /\ nCalls' = nCalls + 1
    /\ dmod' = d
    /\ heard' = h
    /\ giOp' = op
    /\ UNCHANGED <<ctxVars, lastOp, firstPush, runVars, regVars, loadVars, ros,
                   resVars, am, aviews, live>>

Call_add_coord_listener ==
    /\ Len(heard) < MaxListeners
    /\ OnDifferencing([op |-> "add_coord_listener", exc |-> ""],
                      dmod, add_coord_listener(dmod, heard))

\* the coordinate source delivers coordinates: its
\* notify_coord_listeners calls update_coords of the differencing model
Source_notify_coord_listeners ==
    \E x_coords \in Arrays, y_coords \in Arrays :
        OnDifferencing([op |-> "notify_coord_listeners", exc |-> "",
                        x |-> x_coords, y |-> y_coords],
                       update_coords(dmod, x_coords, y_coords), heard)

\* the model source reports a change of the model: its
\* notify_model_listeners calls update_model of the differencing model
Source_notify_model_listeners ==
    \E k \in ModelParams :
        LET d == [dmod EXCEPT !.k = k]
            r == update_model(d, heard)
        IN OnDifferencing([op |-> "notify_model_listeners", exc |-> r.exc],
                          d, r.heard)

InitDifferencing ==
    /\ ctx = NewContext
    /\ clock = 0
    /\ nSame = 0
    /\ IdleApi
    /\ IdleRun
    /\ IdleRegistry
    /\ IdleResolve
    /\ am = NewApertureModel
    /\ aviews = <<>>
    /\ live = <<>>
    /\ dmod = NewDifferencingModel
    /\ heard = <<>>
    /\ giOp = [op |-> "__init__", exc |-> ""]

NextDifferencing ==
    \/ Call_add_coord_listener
    \/ Source_notify_coord_listeners
    \/ Source_notify_model_listeners

SpecDifferencing == InitDifferencing /\ [][NextDifferencing]_vars

\* ================================================================ claims
\* a step of Spec that is a call of the method op
Called(op) == nCalls' = nCalls + 1 /\ lastOp'.op = op

\* ---------------------------------------------------------------- C1
\* C1: FINISHED is terminal.  Once status is FINISHED it stays FINISHED in
\* every later state, and a later pause(), unpause() or isPaused(..) call
\* is rejected with an error.
C1_FinishedIsTerminal ==
    [][ctx.status = "FINISHED" =>
          /\ ctx'.status = "FINISHED"
          /\ (Called("pause") \/ Called("unpause")) => lastOp'.exc # ""]_vars

\* ---------------------------------------------------------------- C2
\* C2: pause / resume of an n-step recipe under the driver loop.  No step
\* of the recipe runs while status is PAUSED; a pause requested during a
\* step has become PAUSED before the next step of the recipe begins; and
\* when the run is complete stephistory holds exactly two entries (begin
\* and end) for every step that ran.
C2_PauseResume ==
    /\ pc = "running" => ctx.status # "PAUSED"
    /\ (pc = "running" /\ Len(stack) = 1 /\ Top.ph = "next"
          /\ Top.ip <= Len(Top.substeps)) => ~reqInStep
    /\ pc = "done" => Cardinality(DOMAIN ctx.stephistory) = 2 * Len(log)

\* ---------------------------------------------------------------- C3
\* the first and the last character of a line that is not whitespace
\* (0 when there is none)
FirstInk(l) ==
    IF \A i \in 1..Len(l) : l[i] \in Whitespace THEN 0
    ELSE CHOOSE i \in 1..Len(l) :
            l[i] \notin Whitespace /\ \A j \in 1..(i - 1) : l[j] \in Whitespace
LastInk(l) ==
    IF \A i \in 1..Len(l) : l[i] \in Whitespace THEN 0
    ELSE CHOOSE i \in 1..Len(l) :
            l[i] \notin Whitespace /\ \A j \in (i + 1)..Len(l) : l[j] \in Whitespace
IsStepLine(l) == FirstInk(l) # 0 /\ l[FirstInk(l)] # "#"
\* the lines of a text that name a step, in textual order, without the
\* whitespace around them
ExpectedSteps(text) ==
    LET sel == SelectSeq(splitlines(text), IsStepLine)
    IN [i \in 1..Len(sel) |-> SubSeq(sel[i], FirstInk(sel[i]), LastInk(sel[i]))]
AtDepthOne(e) == e.depth = 1
\* the names the main recipe called substeps() with, in order
MainLog ==
    LET sel == SelectSeq(log, AtDepthOne) IN [i \in 1..Len(sel) |-> sel[i].name]
IsPrefix(s, t) == Len(s) <= Len(t) /\ SubSeq(t, 1, Len(s)) = s

\* C3: execution order.  At every moment of a run the steps the main
\* recipe has invoked are the first of its step lines (the lines that are
\* not blank and not comments, stripped), in textual order, each once; and
\* when the run is complete every step line has been invoked.
C3_ExecutionOrder ==
    pc # "idle" =>
        /\ IsPrefix(MainLog, ExpectedSteps(rtext[MainRecipe]))
        /\ pc = "done" => MainLog = ExpectedSteps(rtext[MainRecipe])

\* a complete run of a text with a step, an indented comment, and a step
\* with whitespace around it
C3_Witness ==
    /\ pc = "done"
    /\ rtext[MainRecipe] = JoinLines(<<<<"p">>, <<" ", "#", "p">>, <<" ", "q", " ">>>>)
    /\ MainLog = <<<<"p">>, <<"q">>>>

\* ---------------------------------------------------------------- C4
Marks(m, n, d) ==
    {t \in DOMAIN ctx.stephistory :
        /\ ctx.stephistory[t].mark = m
        /\ ctx.stephistory[t].stepname = n
        /\ ctx.stephistory[t].indent = d}
Invocations(n, d) ==
    {i \in 1..Len(log) : log[i].name = n /\ log[i].depth = d}

\* C4: history nesting.  After a complete run stephistory holds, for every
\* invocation of a step, one begin mark and one end mark, both recording
\* the indent of the step's nesting depth (so a nested step records a
\* larger indent than the step around it), and indent is back to 0.
C4_HistoryNesting ==
    pc = "done" =>
        /\ ctx.indent = 0
        /\ \A i \in 1..Len(log) :
              LET n == log[i].name
                  d == log[i].depth
              IN /\ Cardinality(Marks("begin", n, d - 1))
                      = Cardinality(Invocations(n, d))
                 /\ Cardinality(Marks("end", n, d - 1))
                      = Cardinality(Invocations(n, d))

\* ---------------------------------------------------------------- C5
\* C5: finalizeOutputs() contract.  A finalizeOutputs() call that finds
\* the standard list O non-empty leaves inputs = O and the standard list
\* empty, and leaves calibrations, calibration requests, the other output
\* categories, stephistory, status and the control signal as they were;
\* an end() call that finds O non-empty leaves inputs = O, and
\* originalInputs equal to the inputs before it if it was not set before.
C5_FinalizeContract ==
    [][/\ (Called("finalizeOutputs") /\ ctx.outputs["standard"] # <<>>) =>
             /\ ctx'.inputs = ctx.outputs["standard"]
             /\ ctx'.outputs["standard"] = <<>>
             /\ DOMAIN ctx'.outputs = DOMAIN ctx.outputs
             /\ \A cat \in DOMAIN ctx.outputs \ {"standard"} :
                   ctx'.outputs[cat] = ctx.outputs[cat]
             /\ ctx'.calibrations = ctx.calibrations
             /\ ctx'.calrqs = ctx.calrqs
             /\ ctx'.stephistory = ctx.stephistory
             /\ ctx'.status = ctx.status
             /\ ctx'.cmdRequest = ctx.cmdRequest
       /\ (Called("end") /\ ctx.outputs["standard"] # <<>>) =>
             /\ ctx'.inputs = ctx.outputs["standard"]
             /\ ctx'.outputs["standard"] = <<>>
             /\ ctx'.originalInputs =
                   IF ctx.originalInputs = None THEN Some(ctx.inputs)
                   ELSE ctx.originalInputs
      ]_vars

\* inputs [a], one step that reported [b], after its end()
C5_Witness ==
    /\ lastOp.op = "end"
    /\ ctx.inputs = <<"b.fits">>
    /\ ctx.originalInputs = Some(<<"a.fits">>)
    /\ ctx.outputs["standard"] = <<>>

\* ---------------------------------------------------------------- C6
\* a step of SpecRun in which a step of a recipe begins
StepBegins == pc = "running" /\ pc' = "running" /\ Len(log') = Len(log) + 1
\* what the step before left for the step that begins
Chained(p) == IF p.out # <<>> THEN p.out ELSE p.in

\* C6 as stated: the inputs a step begins with (the inputs of its begin
\* mark) are the outputs the step before it reported, or that step's own
\* inputs when it reported none.
C6_StepChaining ==
    [][(StepBegins /\ Top.prev # None) =>
          /\ ctx.inputs = Chained(Top.prev[1])
          /\ ctx'.stephistory[clock'].inputs = Chained(Top.prev[1])]_vars

\* C6 as amended: the same, for a step that follows a step inside which no
\* other step ran.
C6_StepChainingOfPrimitives ==
    [][(StepBegins /\ Top.prev # None /\ ~Top.prev[1].nested) =>
          /\ ctx.inputs = Chained(Top.prev[1])
          /\ ctx'.stephistory[clock'].inputs = Chained(Top.prev[1])]_vars

\* the second step of the main recipe has begun with the output the first
\* step, a primitive, reported
C6_Witness ==
    /\ Len(stack) = 1
    /\ Top.ip = 2
    /\ Top.ph = "called"
    /\ Top.prev = Some([in |-> <<"a.fits">>, out |-> <<"b.fits">>,
                        nested |-> FALSE])
    /\ Top.curIn = <<"b.fits">>

\* ---------------------------------------------------------------- C7
\* C7: finalizeOutputs idempotence.  A finalizeOutputs() call that follows
\* a finalizeOutputs() call leaves inputs, originalInputs and outputs as
\* they were; a finalizeOutputs() call that finds the standard list empty
\* changes nothing; and in the state any call leaves, one finalizeOutputs()
\* and two give the same context.
C7_FinalizeIdempotent ==
    [][/\ Called("finalizeOutputs") =>
             /\ lastOp.op = "finalizeOutputs" =>
                   /\ ctx'.inputs = ctx.inputs
                   /\ ctx'.originalInputs = ctx.originalInputs
                   /\ ctx'.outputs = ctx.outputs
             /\ ctx.outputs["standard"] = <<>> => ctx' = ctx
       /\ finalizeOutputs(finalizeOutputs(ctx')) = finalizeOutputs(ctx')
      ]_vars

\* a second finalizeOutputs() in a row, the first having moved [b]
C7_Witness ==
    /\ lastOp.op = "finalizeOutputs"
    /\ lastOp.rep
    /\ ctx.inputs = <<"b.fits">>
    /\ ctx.originalInputs = Some(<<>>)

\* ---------------------------------------------------------------- C8
\* C8: reportOutput with a category other than "standard" raises and
\* leaves the context as it was, whatever it is called with; a
\* reportOutput call that raised has changed nothing; and outputs never
\* has a category other than "standard".
C8_NonStandardRejected ==
    [][/\ \A arg \in OutputArgs :
             reportOutput(ctx, arg, "nonstandard") = Ret(ctx, "RecipeExcept")
       /\ (Called("reportOutput") /\ lastOp'.exc # "") => ctx' = ctx
       /\ DOMAIN ctx'.outputs = {"standard"}
      ]_vars

\* reportOutput([a, b]) then a rejected reportOutput
C8_Witness ==
    /\ lastOp.op = "reportOutput"
    /\ lastOp.exc = "RecipeExcept"
    /\ lastOp.rep
    /\ ctx.outputs["standard"] = <<"a.fits", "b.fits">>

\* ---------------------------------------------------------------- C9
\* the types of the dataset of the call made
ReqTypes == req.dataset[1].types
\* a type with a registered primitives module
IsBound(t) ==
    /\ t \in DOMAIN centralPrimitivesIndex
    /\ centralPrimitivesIndex[t][1] \in DOMAIN centralReductionMap
Related(a, b) == isSubtypeOf(a, b) \/ isSubtypeOf(b, a)
\* a call that resolves by dataset, all of whose types are bound
ByDataset ==
    /\ req.dataset # None
    /\ req.astrotype = None
    /\ \A i \in 1..Len(ReqTypes) : IsBound(ReqTypes[i])

\* C9: resolving a dataset whose types are bound and form a chain of
\* subtypes, in any order, returns the object of the most specific type.
C9_MostSpecificWins ==
    (/\ ByDataset
     /\ Len(ReqTypes) >= 2
     /\ \A i, j \in 1..Len(ReqTypes) : i # j => Related(ReqTypes[i], ReqTypes[j]))
    => \E i \in 1..Len(ReqTypes) :
          /\ \A j \in 1..Len(ReqTypes) : j # i => isSubtypeOf(ReqTypes[i], ReqTypes[j])
          /\ res = Returned(ReqTypes[i])

\* ---------------------------------------------------------------- C10
\* the message of the conflicting-assignment error for two types
ConflictMessage(a, b) ==
    "CONFLICTING PRIMITIVES ASSIGNMENT type: " \o a \o " conflicts with type: " \o b

\* C10: resolving a dataset whose types are two bound types, neither a
\* subtype of the other, raises the conflicting-assignment error naming
\* both types, and returns no object.
C10_UnrelatedConflict ==
    (/\ ByDataset
     /\ Len(ReqTypes) = 2
     /\ ~Related(ReqTypes[1], ReqTypes[2]))
    => /\ res.exc = "RecipeExcept"
       /\ res.msg \in {ConflictMessage(ReqTypes[1], ReqTypes[2]),
                       ConflictMessage(ReqTypes[2], ReqTypes[1])}
       /\ res.rotype = None

\* ---------------------------------------------------------------- C11
\* two types of the dataset of the call made that are both bound and of
\* which neither is a subtype of the other
Competing(i, j) ==
    /\ i # j
    /\ IsBound(ReqTypes[i])
    /\ IsBound(ReqTypes[j])
    /\ ~Related(ReqTypes[i], ReqTypes[j])

\* C11: resolving a dataset among whose types two bound types are
\* unrelated raises the conflicting-assignment error and returns no object,
\* whatever the order of the types and whatever other types are listed.
C11_UnorderedNeverResolved ==
    (/\ req.dataset # None
     /\ req.astrotype = None
     /\ \E i, j \in 1..Len(ReqTypes) : Competing(i, j))
    => /\ res.exc = "RecipeExcept"
       /\ \E a, b \in Types : res.msg = ConflictMessage(a, b)
       /\ res.rotype = None

\* ---------------------------------------------------------------- C12
\* the call made resolved by the types of its dataset
DatasetConsulted ==
    /\ req.dataset # None
    /\ ~(req.astrotype # None /\ req.astrotype[1] \in DOMAIN centralPrimitivesIndex)

C19_PauseRequestProtocol ==
    [][ /\ Called("requestPause") =>
              ctx' = [ctx EXCEPT !.cmdRequest = "pause"]
        /\ (Called("processCmdReq") /\ ctx.cmdRequest = "pause") =>
              ctx' = [ctx EXCEPT !.status = "PAUSED", !.cmdRequest = "NONE"]
        /\ (Called("processCmdReq") /\ ctx.cmdRequest # "pause") =>
              ctx' = ctx
        /\ (ctx.status # "PAUSED" /\ ctx'.status = "PAUSED") =>
              \/ Called("processCmdReq") /\ ctx.cmdRequest = "pause"
              \/ Called("pause")
              \/ Called("isPaused") ]_vars

\* processCmdReq() has run with a pause request pending
C19_Witness ==
    /\ lastOp.op = "processCmdReq"
    /\ lastOp.sig = "pause"
    /\ ctx.status = "PAUSED"
    /\ ctx.cmdRequest = "NONE"

\* ---------------------------------------------------------------- C20
\* the calls that are not an explicit resume
NotResuming ==
    {"begin", "end", "addInput", "reportOutput", "finalizeOutputs",
     "requestPause", "control", "processCmdReq"}

\* C20: status goes from PAUSED to RUNNING only in unpause() or
\* isPaused(False), and begin, end, addInput, reportOutput,
\* finalizeOutputs, requestPause, control and processCmdReq leave a PAUSED
\* context PAUSED.
C20_NoAutomaticResume ==
    [][ /\ (ctx.status = "PAUSED" /\ ctx'.status = "RUNNING") =>
              (Called("unpause") \/ Called("isPaused"))
        /\ (ctx.status = "PAUSED" /\ \E op \in NotResuming : Called(op)) =>
              ctx'.status = "PAUSED" ]_vars

\* processCmdReq() has run on a paused context with no request pending,
\* after another call on the paused context
C20_Witness ==
    /\ nCalls >= 3
    /\ lastOp.op = "processCmdReq"
    /\ lastOp.sig = "NONE"
    /\ lastOp.exc = ""
    /\ ctx.status = "PAUSED"
    /\ ctx.indent = 1

\* ---------------------------------------------------------------- C13
\* C13: a primitives index that declares a type already in the
\* centralPrimitivesIndex ends the import with an exception and leaves the
\* index as it was.
C13_OneDescriptorPerType ==
    [][ \A f \in walked' \ walked :
            (/\ f.kind = "primitivesIndex"
             /\ DOMAIN f.decl \cap DOMAIN centralPrimitivesIndex # {})
            => /\ loadExc' # ""
               /\ centralPrimitivesIndex' = centralPrimitivesIndex ]_vars

\* ---------------------------------------------------------------- C14
\* the elements of a list
Range(l) == {l[i] : i \in 1..Len(l)}
\* the recipe names the recipe indexes walked so far declare for type t
Declared(t) ==
    UNION {Range(f.decl[t]) :
             f \in {g \in walked : g.kind = "recipeIndex" /\ t \in DOMAIN g.decl}}
\* the recipe names registered for type t
Registered(t) ==
    IF t \in DOMAIN centralAstroTypeRecipeIndex
    THEN Range(centralAstroTypeRecipeIndex[t])
    ELSE {}

\* C14: whatever recipe indexes have been walked, the recipes registered
\* for each type are those that any of them declares for it, and no recipe
\* index ends the import.
C14_RecipeIndexMerge ==
    /\ \A t \in Types : Registered(t) = Declared(t)
    /\ loadExc = ""

\* ---------------------------------------------------------------- C15
\* the last call on the library was op
Asked(op) == "op" \in DOMAIN req /\ req.op = op

\* the recipe files walked that register name for astrotype (None: for no
\* type)
RegisteredFor(name, astrotype) ==
    {f \in walked : f.kind = "recipe" /\ f.name = name /\ f.astrotype = astrotype}

\* C15: retrieveRecipe(name, astrotype = T) returns the text of the recipe
\* registered for (name, T) if there is one, else that of the recipe
\* registered for name with no type if there is one, else None; it does
\* not raise.
C15_LookupPrecedence ==
    (Asked("retrieveRecipe") /\ req.astrotype # None) =>
        /\ res.exc = ""
        /\ IF RegisteredFor(req.name, req.astrotype) # {}
           THEN \E f \in RegisteredFor(req.name, req.astrotype) :
                    res.value = Some(RecipeFileText(FullPath(f)))
           ELSE IF RegisteredFor(req.name, None) # {}
           THEN \E f \in RegisteredFor(req.name, None) :
                    res.value = Some(RecipeFileText(FullPath(f)))
           ELSE res.value = None

\* with a default and a GSAOI recipe registered for makeProcessedDark, the
\* lookup for GSAOI returned the text of the GSAOI recipe
C15_Witness ==
    /\ Asked("retrieveRecipe")
    /\ req.name = "makeProcessedDark"
    /\ req.astrotype = Some("GSAOI")
    /\ RegisteredFor("makeProcessedDark", None) # {}
    /\ RegisteredFor("makeProcessedDark", Some("GMOS")) # {}
    /\ res.value = Some(<<"q">>)

\* ---------------------------------------------------------------- C16
\* the step is a call of op on the library
Asks(op) == nCalls' = nCalls + 1 /\ "op" \in DOMAIN req' /\ req'.op = op

\* a recipe is registered for name and astrotype, or for name with no type
LookupPositive(name, astrotype) ==
    RegisteredFor(name, astrotype) \cup RegisteredFor(name, None) # {}

\* C16: loadAndBindRecipe(ro, name, astrotype = T) raises nothing; when no
\* recipe is registered for (name, T) nor for name it leaves ro as it was,
\* and when one is, name is afterwards bound on ro to a generator function;
\* so a name not bound before is bound after if and only if the lookup is
\* positive.
C16_NoCrossTypeLeakage ==
    [][ (Asks("loadAndBindRecipe") /\ req'.astrotype # None) =>
            LET i == req'.obj
                name == req'.name
            IN /\ res'.exc = ""
               /\ \A j \in 1..Len(ros) : j # i => ros'[j] = ros[j]
               /\ IF LookupPositive(name, req'.astrotype)
                  THEN /\ name \in DOMAIN ros'[i].bound
                       /\ ros'[i].bound[name].kind = "generatorfunction"
                  ELSE ros'[i] = ros[i] ]_vars

\* ---------------------------------------------------------------- C17
\* the names callable on a reduction object
Callable(redobj) == DOMAIN redobj.bound \cup redobj.prims

\* C17: a bindRecipe, loadAndBindRecipe or checkAndBind call on one
\* reduction object leaves every other reduction object, and so the names
\* callable on it, as it was, and a reduction object made after recipes
\* were bound on another has none of them.
C17_BindingPerInstance ==
    [][ /\ \A op \in {"bindRecipe", "loadAndBindRecipe", "checkAndBind"} :
              Asks(op) =>
                 \A j \in 1..Len(ros) :
                     j # req'.obj =>
                        /\ ros'[j] = ros[j]
                        /\ Callable(ros'[j]) = Callable(ros[j])
        /\ Len(ros') > Len(ros) =>
              /\ Callable(ros'[Len(ros')]) = NativePrimitives
              /\ \A j \in 1..Len(ros) : ros'[j] = ros[j] ]_vars

\* recipes are bound on both reduction objects, under different names
C17_Witness ==
    /\ Len(ros) = 2
    /\ Asked("bindRecipe")
    /\ req.obj = 1
    /\ DOMAIN ros[1].bound = {"makeProcessedDark", "p"}
    /\ DOMAIN ros[2].bound = {"makeProcessedDark"}
    /\ ros[1].bound["makeProcessedDark"] # ros[2].bound["makeProcessedDark"]

\* ---------------------------------------------------------------- C18
\* C18: a name that is a primitive of the class of a reduction object is
\* never bound on the object, so that invoking it runs the primitive.
C18_NativeTakesPrecedence ==
    \A i \in 1..Len(ros) :
        \A name \in ros[i].prims :
            /\ name \notin DOMAIN ros[i].bound
            /\ GetAttr(ros[i], name).kind = "primitive"

\* ---------------------------------------------------------------- C21
\* the moments of the history of c
Moments(c) == {c.stephistory[k] : k \in DOMAIN c.stephistory}

C22_MomentsImmutable ==
    [][\A k \in DOMAIN ctx.stephistory :
          /\ k \in DOMAIN ctx'.stephistory
          /\ ctx'.stephistory[k] = ctx.stephistory[k]]_vars

\* ---------------------------------------------------------------- C23
\* the keys a calibration can be recorded under
CalKeys == Files \X CalTypes

\* C23: calibration lookup.  addCal(f, t, n) makes n the calibration of
\* the key (f, t) and leaves every other key as it was; no other call
\* changes a calibration; and getCal(f, t) returns the calibration of
\* exactly (f, t), None when that key has none, without raising and
\* without changing the context.
C23_CalibrationLookup ==
    [][ /\ Called("addCal") =>
              LET a == lastOp'.args
              IN /\ getCal(ctx', a.fname, a.caltyp) = Some(a.calname)
                 /\ \A k \in CalKeys \ {<<a.fname, a.caltyp>>} :
                        getCal(ctx', k[1], k[2]) = getCal(ctx, k[1], k[2])
        /\ (nCalls' = nCalls + 1 /\ ~Called("addCal")) =>
              \A k \in CalKeys : getCal(ctx', k[1], k[2]) = getCal(ctx, k[1], k[2])
        /\ Called("getCal") =>
              LET a == lastOp'.args
                  key == <<a.filename, a.caltype>>
              IN /\ ctx' = ctx
                 /\ lastOp'.exc = ""
                 /\ lastOp'.ret = IF key \in DOMAIN ctx.calibrations
                                  THEN Some(ctx.calibrations[key]) ELSE None ]_vars

\* getCal returned None for a key that has no calibration while the same
\* file has one of the other type and the other file has one of this type
C23_Witness ==
    /\ lastOp.op = "getCal"
    /\ lastOp.args = [filename |-> "a.fits", caltype |-> "flat"]
    /\ lastOp.ret = None
    /\ DOMAIN ctx.calibrations = {<<"a.fits", "bias">>, <<"b.fits", "flat">>}

\* ---------------------------------------------------------------- C25
\* C25: status domain.  In every state of a context, from its
\* construction onward, status is RUNNING, PAUSED or FINISHED.
C25_StatusDomain == ctx.status \in {"RUNNING", "PAUSED", "FINISHED"}

\* ---------------------------------------------------------------- C26
\* C26: originalInputs is a write-once snapshot.  In every state after the
\* first finalizeOutputs() that found standard outputs, originalInputs is
\* the inputs list as it stood before that call.
C26_OriginalInputsSnapshot ==
    firstPush # None => ctx.originalInputs = firstPush

\* ---------------------------------------------------------------- C29
\* C29: every begin() and every end() adds exactly one entry to
\* stephistory and replaces none.
C29_OneEntryPerBoundary ==
    [][(Called("begin") \/ Called("end")) =>
          /\ Cardinality(DOMAIN ctx'.stephistory)
                = Cardinality(DOMAIN ctx.stephistory) + 1
          /\ \A k \in DOMAIN ctx.stephistory :
                /\ k \in DOMAIN ctx'.stephistory
                /\ ctx'.stephistory[k] = ctx.stephistory[k]]_vars

\* ---------------------------------------------------------------- C27
\* a primitive invocation at the top of the stack returns
PrimitiveYields ==
    /\ pc = "running"
    /\ stack # <<>>
    /\ Top.ph = "called"
    /\ Len(stack') = Len(stack)
    /\ stack'[Len(stack')].ph = "yielded"

\* C27: checkpoints propagate through nested recipes.  After every
\* primitive invocation, at whatever depth, control is back at the driver;
\* no generator advances while a checkpoint waits for the driver; and no
\* step begins, at whatever depth, while the context is paused or while a
\* pause requested during a step at that depth or deeper is pending, so a
\* pause requested during inner step j takes effect before inner step j+1.
C27_CheckpointsPropagate ==
    [][ /\ PrimitiveYields => pc' = "checkpoint"
        /\ pc = "checkpoint" =>
              /\ stack' = stack
              /\ log' = log
              /\ pc' \in {"checkpoint", "pull"}
        /\ Len(log') = Len(log) + 1 =>
              /\ ctx.status # "PAUSED"
              /\ ~(pauseRequested(ctx) /\ reqIndent >= Len(stack)) ]_vars

\* the run is paused inside the nested recipe, after its first step has
\* ended and before its second has begun
C27_Witness ==
    /\ ctx.status = "PAUSED"
    /\ pc = "pull"
    /\ Len(stack) = 2
    /\ Top.ph = "next"
    /\ Top.ip = 2
    /\ Len(Top.substeps) = 2
    /\ [i \in 1..Len(log) |-> log[i].depth] = <<1, 2>>

\* ---------------------------------------------------------------- C28
\* C28: termination.  Under a driver that keeps pulling and a caller that
\* unpauses, every run, nested recipes included, comes to its end: the
\* final checkpoint, or the failure of a step.
C28_Termination == <>(pc \in {"done", "failed"})

\* a run with a nested recipe that was paused and is complete
C28_Witness ==
    /\ pc = "done"
    /\ \E i \in 1..Len(log) : log[i].depth = 2
    /\ ctx.status = "RUNNING"

TypedFor(name, dataset) ==
    {t \in Range(openIfName(dataset).gd.types) : RegisteredFor(name, Some(t)) # {}}

\* C30: typed recipe beats the default when binding by dataset.  After
\* loadAndBindRecipe(ro, name, file = dataset) has returned, when a recipe
\* is registered for name and one of the dataset's types and a default is
\* registered for name, name is bound on ro to the recipe registered for
\* one of the dataset's types.
C30_TypedBeatsDefault ==
    [][ (/\ Asks("loadAndBindRecipe")
         /\ req'.file # None
         /\ res'.exc = ""
         /\ TypedFor(req'.name, req'.file[1]) # {}
         /\ RegisteredFor(req'.name, None) # {}) =>
            LET name == req'.name
                redobj == ros'[req'.obj]
            IN /\ name \in DOMAIN redobj.bound
               /\ \E t \in TypedFor(name, req'.file[1]) :
                     \E f \in RegisteredFor(name, Some(t)) :
                        redobj.bound[name] =
                           compileRecipe(name,
                               composeRecipe(name, RecipeFileText(FullPath(f)))) ]_vars

\* ---------------------------------------------------------------- C31
\* C31: checkAndBind(redobj, name, context) returns False exactly when
\* name was callable on redobj before the call, and then leaves redobj as
\* it was; and whenever it returns True, name is callable on redobj after
\* the call.
C31_CheckAndBindResult ==
    [][ Asks("checkAndBind") =>
            LET i == req'.obj
                name == req'.name
            IN /\ (res'.value = Some(FALSE)) <=> checkMethod(ros[i], name)
               /\ res'.value = Some(FALSE) => ros'[i] = ros[i]
               /\ res'.value = Some(TRUE) => checkMethod(ros'[i], name) ]_vars

\* ---------------------------------------------------------------- C32
\* a step that began with nothing reported is in progress, outputs were
\* reported in it, and the last call began a step nested in it
NestedBegunAfterReport ==
    /\ lastOp.op = "begin"
    /\ clock \in DOMAIN ctx.stephistory
    /\ ctx.stephistory[clock].mark = "begin"
    /\ ctx.stephistory[clock].indent = ctx.indent - 1
    /\ ctx.outputs["standard"] # <<>>
    /\ \E m \in Moments(ctx) :
          /\ m.mark = "begin"
          /\ m.indent = ctx.indent - 2
          /\ m.outputs["standard"] = <<>>

\* C32: outputs are scoped to the step that reported them.  The end() of
\* a nested step that reported nothing leaves the outputs the step around
\* it has reported in the standard category and leaves inputs as they are.
C32_OutputsScopedToStep ==
    [][ (/\ NestedBegunAfterReport
         /\ Called("end")
         /\ ctx'.stephistory[clock'].stepname = ctx.stephistory[clock].stepname) =>
            /\ ctx'.outputs = ctx.outputs
            /\ ctx'.inputs = ctx.inputs ]_vars

\* ---------------------------------------------------------------- C33
\* C33: indent is never negative.
C33_IndentNeverNegative == ctx.indent >= 0

\* ---------------------------------------------------------------- C34
\* C34: the pause request is a single flag that stays pending until a
\* step boundary observes it.  A requestPause() while a request is pending
\* changes nothing; no call other than processCmdReq() takes a pending
\* request away; processCmdReq() with a request pending pauses and clears
\* it; no call other than requestPause() and control() makes a request
\* pending; and processCmdReq() with no request pending leaves status as
\* it is, so that after unpause() it does not pause again.
C34_SinglePendingFlag ==
    [][ /\ (Called("requestPause") /\ ctx.cmdRequest = "pause") => ctx' = ctx
        /\ (nCalls' = nCalls + 1 /\ ctx.cmdRequest = "pause"
               /\ ~Called("processCmdReq")) => ctx'.cmdRequest = "pause"
        /\ (Called("processCmdReq") /\ ctx.cmdRequest = "pause") =>
              /\ ctx'.status = "PAUSED"
              /\ ctx'.cmdRequest = "NONE"
        /\ (nCalls' = nCalls + 1 /\ ctx.cmdRequest # "pause"
               /\ ~Called("requestPause") /\ ~Called("control")) =>
              ctx'.cmdRequest # "pause"
        /\ (Called("processCmdReq") /\ ctx.cmdRequest # "pause") =>
              ctx'.status = ctx.status ]_vars

\* ---------------------------------------------------------------- C35
\* C35: aperture ids are unique among live apertures.  No two apertures
\* that were added and not deleted since have the same id.
C35_LiveIdsUnique ==
    \A i, j \in 1..Len(live) : i # j => live[i] # live[j]

\* ---------------------------------------------------------------- C36
\* a step that is a call of op on the aperture objects
Does(op) == nCalls' = nCalls + 1 /\ giOp'.op = op

\* C36: a deleted aperture is forgotten by the view.  After a
\* delete_aperture(id) that raised nothing no view recognizes id, and an
\* add_aperture that takes its id from the spare pool and raises nothing
\* makes every view create a new single-aperture display for it.
C36_DeletedIsForgotten ==
    [][ /\ (Does("delete_aperture") /\ giOp'.exc = "") =>
              \A i \in 1..Len(aviews') : giOp'.id \notin DOMAIN aviews'[i].aps
        /\ (Does("add_aperture") /\ giOp'.exc = "" /\ giOp'.pooled) =>
              \A i \in 1..Len(aviews') :
                  /\ aviews'[i].made = aviews[i].made + 1
                  /\ giOp'.id \in DOMAIN aviews'[i].aps
                  /\ aviews'[i].aps[giOp'.id].serial = aviews'[i].made ]_vars

\* ---------------------------------------------------------------- C37
\* C37: GIDifferencingModel publishes on either kind of update.  When the
\* coordinate source delivers coordinates, and when the model source
\* reports a change while coordinates are held, every listener of the
\* differencing model is notified exactly once, with x and y - fn(x) of
\* the latest coordinates.
C37_PublishesOnEitherUpdate ==
    [][ /\ Does("notify_coord_listeners") =>
              \A i \in 1..Len(heard) :
                  heard'[i] = Append(heard[i],
                                 <<giOp'.x, Minus(giOp'.y, fn(dmod'.k, giOp'.x))>>)
        /\ (Does("notify_model_listeners") /\ dmod.data_x_coords # None) =>
              /\ giOp'.exc = ""
              /\ \A i \in 1..Len(heard) :
                    heard'[i] = Append(heard[i],
                                   <<dmod.data_x_coords[1],
                                     Minus(dmod.data_y_coords[1],
                                           fn(dmod'.k, dmod.data_x_coords[1]))>>) ]_vars

====
